---- MODULE Spec2Model ----
(***************************************************************************)
(* A model of the Picta photo search engine: the SQLite store              *)
(* (core/database.py), the FAISS-backed text search engine                 *)
(* (core/search_engine.py), the visual recommender's index                 *)
(* (visual_search/engine.py) and the indexing runs of main.py.             *)
(*                                                                         *)
(* Conventions.                                                            *)
(*  - A Python value that may be None, and a nullable SQL column, is a     *)
(*    sequence of length at most one: None is << >>, a value v is <<v>>.   *)
(*  - A text that the code inspects by character (names, keywords, the     *)
(*    search text) is a sequence of characters.  An ASCII letter is a      *)
(*    one-letter string; a Hangul syllable is written as its romanised     *)
(*    name ("je", "ju", "do"), one sequence element per syllable.          *)
(*  - A stored date/time text is a sequence of numbers that compares the   *)
(*    way the text compares byte by byte: the day (the fixed-width         *)
(*    'YYYY-MM-DD' part), then the code point of the separator, then the   *)
(*    time of day.                                                         *)
(*  - A similarity is an integer number of hundredths (0.26 is 26).        *)
(***************************************************************************)
EXTENDS Integers, Sequences, FiniteSets, TLC

\* ------------------------------------------------------------------ bounds

\* AUTOINCREMENT ids handed out by the images table are capped here.
MaxId == 2
\* Rows the faces table may hold.
MaxFaces == 1
\* Items one indexing run processes.
MaxBatch == 2
\* top_k ranges over 0..MaxK.
MaxK == 2
\* The largest number of requests to the gazetteer in a behaviour.
MaxRequests == 2
\* The largest images id where photos related to a photo are asked for.
MaxRelated == 3
\* The longest place name, in syllables, that is normalized on its own.
MaxNameLen == 3

\* ------------------------------------------------------- optional values

None == << >>
Some(v) == <<v>>
IsNone(o) == o = << >>
IsSome(o) == o # << >>
Val(o) == o[1]

\* ------------------------------------------------------------- sequences

Range(s) == {s[i] : i \in 1..Len(s)}

Min(a, b) == IF a <= b THEN a ELSE b

\* s[:n] of Python for n >= 0.
Take(s, n) == SubSeq(s, 1, Min(n, Len(s)))

RECURSIVE SeqOfSet(_)
\* The elements of a finite set of integers, in ascending order.
SeqOfSet(S) ==
    IF S = {} THEN << >>
    ELSE LET m == CHOOSE x \in S : \A y \in S : x <= y
         IN  <<m>> \o SeqOfSet(S \ {m})

\* The sequences without repetition that list exactly the set S.
Perms(S) ==
    {p \in [1..Cardinality(S) -> S] : \A i, j \in 1..Cardinality(S) : p[i] = p[j] => i = j}

\* ------------------------------------------------------------------ texts

\* str.lower() on one character: the upper-case letters the model uses.
LowerChar(c) ==
    CASE c = "B" -> "b"
      [] c = "G" -> "g"
      [] c = "J" -> "j"
      [] c = "P" -> "p"
      [] c = "S" -> "s"
      [] OTHER -> c

LowerStr(s) == [i \in 1..Len(s) |-> LowerChar(s[i])]

\* Python's `sub in s` on texts.
Contains(s, sub) ==
    \E i \in 0..(Len(s) - Len(sub)) : \A j \in 1..Len(sub) : s[i + j] = sub[j]

\* Python's s.endswith(suf).
EndsWith(s, suf) ==
    /\ Len(suf) <= Len(s)
    /\ \A j \in 1..Len(suf) : s[Len(s) - Len(suf) + j] = suf[j]

\* SQLite's `col LIKE '%pat%'`: a substring match that ignores ASCII case.
LikeContains(col, pat) == Contains(LowerStr(col), LowerStr(pat))

RECURSIVE TextLeq(_, _)
\* a <= b for two texts under SQLite's BINARY collation (memcmp, a proper
\* prefix being the smaller), on the numeric rendering of date texts.
TextLeq(a, b) ==
    IF a = << >> THEN TRUE
    ELSE IF b = << >> THEN FALSE
    ELSE IF a[1] < b[1] THEN TRUE
    ELSE IF a[1] > b[1] THEN FALSE
    ELSE TextLeq(Tail(a), Tail(b))

\* ------------------------------------------------------------- date texts

\* Code points of the two separators that follow the date part.
SepT == 84
SepSpace == 32
\* 23:59:59 as a time of day in seconds.
EndOfDay == 86399

\* datetime.isoformat(): 'YYYY-MM-DDTHH:MM:SS...'.
IsoFormat(day, tod) == <<day, SepT, tod>>
\* A date-only text 'YYYY-MM-DD'.
DateOnly(day) == <<day>>
\* The calendar day a stored date text names.
DayOf(t) == t[1]

\* ----------------------------------------------------------------- vectors

\* CLIPImageProcessor.vector_dim for the default (large) model, and the
\* dimension of the other CLIP models.
VectorDim == 768
SmallDim == 512
\* Bytes of one float32.
FloatBytes == 4

\* An embedding is its length and its direction; the direction "zero" is the
\* zero vector.  Directions are compared only through inner products.
Directions == {"a", "b"}
UnitVector(t) == [dim |-> VectorDim, tok |-> t]
ZeroVector == [dim |-> VectorDim, tok |-> "zero"]
ForeignVector(t) == [dim |-> SmallDim, tok |-> t]

\* clip_vector.astype(np.float32).tobytes()
ToBytes(v) == [nbytes |-> FloatBytes * v.dim, tok |-> v.tok]
\* np.frombuffer(blob, dtype=np.float32)
FromBuffer(b) == [dim |-> b.nbytes \div FloatBytes, tok |-> b.tok]

\* ------------------------------------------------------------------- store

VARIABLES
    images,        \* the images table: id -> row
    images_seq,    \* sqlite_sequence of images: the largest id ever assigned
    faces,         \* the faces table, in id order
    faiss_index,   \* SearchEngine.faiss_index
    id_mapping,    \* SearchEngine.id_mapping
    vs_faiss_index,\* VisualSearchEngine.faiss_index
    vs_id_mapping, \* VisualSearchEngine.id_mapping
    vs_constructed,\* a VisualSearchEngine has been constructed
    run,           \* the calls of the SearchEngine in progress, step by step
    requests,      \* history: the requests sent to the gazetteer, with the answers
    puts,          \* history: file_path -> the arguments of its latest save_image
                   \* and the id its first save_image returned
    op             \* the last operation and what it returned

storeVars == <<images, images_seq, faces>>
engineVars == <<faiss_index, id_mapping>>
visualVars == <<vs_faiss_index, vs_id_mapping, vs_constructed>>
vars == <<images, images_seq, faces, faiss_index, id_mapping,
          vs_faiss_index, vs_id_mapping, vs_constructed, run, requests, puts, op>>

\* The ids of the rows whose file_path is path.
IdsOfPath(imgs, path) == {i \in DOMAIN imgs : imgs[i].file_path = path}

\* The row save_image writes.
ImageRow(id, file_path, clip_vector, metadata) ==
    [id            |-> id,
     file_path     |-> file_path,
     clip_vector   |-> ToBytes(clip_vector),
     taken_date    |-> metadata.taken_date,
     gps_lat       |-> metadata.gps_lat,
     gps_lon       |-> metadata.gps_lon,
     location_name |-> metadata.location_name,
     metadata      |-> metadata]

\* INSERT OR IGNORE INTO images: a row that holds the file_path stays as it is.
InsertOrIgnore(imgs, sq, file_path, clip_vector, metadata) ==
    IF IdsOfPath(imgs, file_path) # {} THEN imgs
    ELSE [i \in DOMAIN imgs \cup {sq + 1} |->
             IF i = sq + 1 THEN ImageRow(sq + 1, file_path, clip_vector, metadata)
             ELSE imgs[i]]

\* INSERT OR REPLACE INTO images: the row that holds the UNIQUE file_path is
\* deleted and the new row gets the next AUTOINCREMENT id.
InsertOrReplace(imgs, sq, file_path, clip_vector, metadata) ==
    LET id   == sq + 1
        kept == (DOMAIN imgs \ IdsOfPath(imgs, file_path)) \cup {id}
    IN  [i \in kept |->
            IF i = id THEN ImageRow(id, file_path, clip_vector, metadata)
            ELSE imgs[i]]

\* DatabaseManager.save_image; returns cursor.lastrowid in op.
save_image(file_path, clip_vector, metadata) ==
    /\ images_seq < MaxId
    /\ images' = InsertOrReplace(images, images_seq, file_path, clip_vector, metadata)
    /\ images_seq' = images_seq + 1
    /\ puts' = [p \in DOMAIN puts \cup {file_path} |->
                  IF p = file_path
                  THEN [clip_vector |-> clip_vector, metadata |-> metadata,
                        id |-> IF p \in DOMAIN puts THEN puts[p].id ELSE images_seq + 1]
                  ELSE puts[p]]
    /\ op' = [name |-> "save_image", ret |-> images_seq + 1]
    /\ UNCHANGED <<requests, faces, engineVars, visualVars, run>>

\* DatabaseManager.save_face: a plain INSERT (the REFERENCES clause is not
\* enforced: sqlite3 leaves foreign keys off).
save_face(image_id, person_name) ==
    /\ Len(faces) < MaxFaces
    /\ faces' = Append(faces, [id |-> Len(faces) + 1, image_id |-> image_id,
                               person_name |-> person_name])
    /\ op' = [name |-> "save_face", ret |-> Len(faces) + 1]
    /\ UNCHANGED <<requests, images, images_seq, engineVars, visualVars, puts, run>>

\* ----------------------------------------------------------- index builds

\* The rows a full scan of images returns (rowid order); save_image always
\* writes clip_vector, so `clip_vector IS NOT NULL` keeps them all.
ScanRows(imgs) == SeqOfSet(DOMAIN imgs)

\* faiss.IndexFlatIP(d) after add(vectors).
FlatIP(d, vectors) == Some([d |-> d, vectors |-> vectors])
\* faiss_index.ntotal.
NTotal(index) == Len(Val(index).vectors)

\* The ids of the scanned rows whose vector has the engine's dimension.
ValidRows(imgs) ==
    SelectSeq(ScanRows(imgs),
              LAMBDA i : FromBuffer(imgs[i].clip_vector).dim = VectorDim)

\* A build that leaves the engine as it was.
KeepEngine(imgs, eng) == eng

\* SearchEngine._build_faiss_index on the engine state `eng`
\* ([faiss_index, id_mapping]): the engine state it leaves.
BuildFaissIndex(imgs, eng) ==
    LET rows  == ScanRows(imgs)
        valid == ValidRows(imgs)
    IN  IF rows = << >> THEN eng
        ELSE IF valid = << >>
        THEN [faiss_index |-> eng.faiss_index, id_mapping |-> << >>]
        ELSE [faiss_index |->
                 FlatIP(VectorDim,
                        [n \in 1..Len(valid) |-> FromBuffer(imgs[valid[n]].clip_vector)]),
              id_mapping |-> valid]

\* VisualSearchEngine._build_index: no dimension check; np.array() of rows of
\* unequal length raises, which the except clause swallows after id_mapping has
\* been overwritten.
BuildVisualIndex(imgs, eng) ==
    LET rows == ScanRows(imgs)
        vecs == [n \in 1..Len(rows) |-> FromBuffer(imgs[rows[n]].clip_vector)]
        dims == {vecs[n].dim : n \in 1..Len(rows)}
    IN  IF rows = << >> THEN eng
        ELSE IF Cardinality(dims) > 1
        THEN [faiss_index |-> eng.faiss_index, id_mapping |-> rows]
        ELSE [faiss_index |-> FlatIP(vecs[1].dim, vecs), id_mapping |-> rows]

Engine == [faiss_index |-> faiss_index, id_mapping |-> id_mapping]
VisualEngine == [faiss_index |-> vs_faiss_index, id_mapping |-> vs_id_mapping]
\* The fields __init__ sets before the first build.
FreshEngine == [faiss_index |-> None, id_mapping |-> << >>]
\* No call of the SearchEngine in progress; builds is the history of the
\* engine states that completed builds left.
Idle == [rebuild |-> None, search |-> None, builds |-> {FreshEngine}]

\* SearchEngine.rebuild_index.
rebuild_index ==
    /\ LET e == BuildFaissIndex(images, Engine)
       IN  /\ faiss_index' = e.faiss_index
           /\ id_mapping' = e.id_mapping
    /\ op' = [name |-> "rebuild_index", ret |-> 0]
    /\ UNCHANGED <<requests, storeVars, visualVars, puts, run>>

\* SearchEngine.__init__ (PictaEngine builds a new engine on every source switch).
NewSearchEngine ==
    /\ LET e == BuildFaissIndex(images, FreshEngine)
       IN  /\ faiss_index' = e.faiss_index
           /\ id_mapping' = e.id_mapping
    /\ op' = [name |-> "SearchEngine", ret |-> 0]
    /\ UNCHANGED <<requests, storeVars, visualVars, puts, run>>

\* VisualSearchEngine.__init__: the only caller of _build_index.
NewVisualSearchEngine ==
    /\ LET e == BuildVisualIndex(images, FreshEngine)
       IN  /\ vs_faiss_index' = e.faiss_index
           /\ vs_id_mapping' = e.id_mapping
    /\ vs_constructed' = TRUE
    /\ op' = [name |-> "VisualSearchEngine", ret |-> 0]
    /\ UNCHANGED <<requests, storeVars, engineVars, puts, run>>

\* ------------------------------------------------------------ indexing runs

\* SimpleMetadataExtractor.extract_metadata on an osxphotos photo
\* [date, location, place]: date is None or <<day, time of day>>, location is
\* None or <<lat, lon>>, place is None or the place name.
extract_metadata(photo) ==
    [taken_date    |-> IF IsSome(photo.date)
                       THEN Some(IsoFormat(Val(photo.date)[1], Val(photo.date)[2]))
                       ELSE None,
     gps_lat       |-> IF IsSome(photo.location) THEN Some(Val(photo.location)[1]) ELSE None,
     gps_lon       |-> IF IsSome(photo.location) THEN Some(Val(photo.location)[2]) ELSE None,
     location_name |-> photo.place,
     source        |-> "mac_photos"]

\* CLIPImageProcessor.encode_image: the unit vector of the picture, or the zero
\* vector when opening or encoding it raised.
encode_image(img) == IF img = "unreadable" THEN ZeroVector ELSE UnitVector(img)
\* The L2 norm of a vector in thousandths: encode_image divides the features
\* by their norm; np.zeros has norm 0.
Norm(v) == IF v.tok = "zero" THEN 0 ELSE 1000

RECURSIVE SaveAll(_, _)
\* The store (and the put history) after the loop body of an indexing run has
\* handled each item [path, vector, metadata, store] in turn; store = "error"
\* is a save_image that raises, which the except clause of the loop logs.
\* count is processed_count.
SaveAll(st, items) ==
    IF items = << >> THEN st
    ELSE LET it == Head(items)
         IN  IF it.store = "error" THEN SaveAll(st, Tail(items))
             ELSE
             SaveAll([images |-> InsertOrReplace(st.images, st.seq, it.path,
                                                 it.vector, it.metadata),
                      seq    |-> st.seq + 1,
                      count  |-> st.count + 1,
                      puts   |-> [p \in DOMAIN st.puts \cup {it.path} |->
                                     IF p = it.path
                                     THEN [clip_vector |-> it.vector,
                                           metadata |-> it.metadata,
                                           id |-> IF p \in DOMAIN st.puts
                                                  THEN st.puts[p].id ELSE st.seq + 1]
                                     ELSE st.puts[p]]],
                     Tail(items))

\* What a run leaves in op besides its result: the ids it assigned, the
\* number of items it was given, the number of those whose picture could not
\* be read or whose save_image raised, and the paths that only such items had.
RunRecord(name, ret, seq0, seq1, given) ==
    LET bad(x) == x.img = "unreadable" \/ x.store = "error"
    IN  [name     |-> name,
         ret      |-> ret,
         ids      |-> (seq0 + 1)..seq1,
         items    |-> Len(given),
         failures |-> Cardinality({n \in 1..Len(given) : bad(given[n])}),
         failed   |-> {given[n].path : n \in {m \in 1..Len(given) : bad(given[m])}}
                          \ {given[n].path : n \in {m \in 1..Len(given) : ~bad(given[m])}}]

\* An indexing run in a store that assigns ids up to cap: the items are saved,
\* then SearchEngine.rebuild_index.
IndexRunUpTo(cap, name, given, items, ret_count) ==
    /\ images_seq + Len(items) <= cap
    /\ LET st == SaveAll([images |-> images, seq |-> images_seq, count |-> 0,
                          puts |-> puts], items)
           e  == BuildFaissIndex(st.images, Engine)
       IN  /\ images' = st.images
           /\ images_seq' = st.seq
           /\ puts' = st.puts
           /\ faiss_index' = e.faiss_index
           /\ id_mapping' = e.id_mapping
           /\ op' = RunRecord(name, IF ret_count THEN st.count ELSE Len(given),
                              images_seq, st.seq, given)
    /\ UNCHANGED <<requests, faces, visualVars, run>>

\* An indexing run in a store that assigns ids up to MaxId.
IndexRun(name, given, items, ret_count) == IndexRunUpTo(MaxId, name, given, items, ret_count)

\* What index_mac_photos saves for the photos [path, photo, img, store].
MacItems(photos) ==
    [n \in 1..Len(photos) |->
        [path     |-> photos[n].path,
         img      |-> photos[n].img,
         vector   |-> encode_image(photos[n].img),
         metadata |-> extract_metadata(photos[n].photo),
         store    |-> photos[n].store]]

\* PictaEngine.index_mac_photos over the photos [path, photo, img, store]:
\* every photo is encoded and saved, then the search engine's index is rebuilt;
\* processed_count is returned.
index_mac_photos(photos) ==
    IndexRun("index_mac_photos", photos, MacItems(photos), TRUE)

\* GoogleDriveLoader.get_photo_metadata on a listed file [id, createdTime,
\* metadata]: createdTime is None or [valid, day, tod] (fromisoformat raises
\* on a text that is not valid, and the date stays None); metadata.location
\* is None or [latitude, longitude], each of them optional.
get_photo_metadata(photo_info) ==
    [taken_date    |-> IF IsSome(photo_info.createdTime)
                          /\ Val(photo_info.createdTime).valid
                       THEN Some(IsoFormat(Val(photo_info.createdTime).day,
                                           Val(photo_info.createdTime).tod))
                       ELSE None,
     gps_lat       |-> IF IsSome(photo_info.metadata.location)
                       THEN Val(photo_info.metadata.location).latitude ELSE None,
     gps_lon       |-> IF IsSome(photo_info.metadata.location)
                       THEN Val(photo_info.metadata.location).longitude ELSE None,
     location_name |-> None,
     source        |-> "google_drive",
     gdrive_id     |-> photo_info.id]

\* f"gdrive://{gdrive_id}".
GdriveUrl(gdrive_id) == "gdrive://" \o gdrive_id

\* PictaEngine.index_google_drive over the files iter_photos yields
\* [img, store, info]; the row is saved under the url of the file.
index_google_drive(files) ==
    LET items == [n \in 1..Len(files) |->
                    [path     |-> GdriveUrl(get_photo_metadata(files[n].info).gdrive_id),
                     img      |-> files[n].img,
                     vector   |-> encode_image(files[n].img),
                     metadata |-> get_photo_metadata(files[n].info),
                     store    |-> files[n].store]]
    IN  IndexRun("index_google_drive", items, items, TRUE)

\* CLIPImageProcessor.batch_encode_images: the vectors of the pictures that
\* could be opened, in order; a picture that could not is left out.
batch_encode_images(imgs) ==
    LET opened == SelectSeq(imgs, LAMBDA x : x # "unreadable")
    IN  [n \in 1..Len(opened) |-> UnitVector(opened[n])]

\* The metadata of the file-system fallback.
LocalMetadata ==
    [taken_date |-> None, gps_lat |-> None, gps_lon |-> None, location_name |-> None,
     source |-> "local_folder"]

\* PictaEngine._fallback_index_images over the files [path, img, store] of the
\* image folder (one batch): zip(batch_paths, vectors) pairs the n-th path
\* with the n-th vector; total_images is returned.
fallback_index_images(paths) ==
    LET vectors == batch_encode_images([n \in 1..Len(paths) |-> paths[n].img])
    IN  IndexRun("fallback_index_images", paths,
                 [n \in 1..Len(vectors) |->
                     [path     |-> paths[n].path,
                      img      |-> paths[n].img,
                      vector   |-> vectors[n],
                      metadata |-> LocalMetadata,
                      store    |-> paths[n].store]],
                 FALSE)

\* ------------------------------------------------------- threshold policy

\* SearchEngine.thresholds, in hundredths.
ThresholdDefault == 26
ThresholdFood == 24
ThresholdPerson == 28
ThresholdPlace == 25
ThresholdActivity == 25
\* The floor under which the top hit is not returned either.
TopHitFloor == 20

\* The keyword lists of _get_dynamic_threshold.
food_keywords ==
    <<<<"f", "o", "o", "d">>, <<"m", "e", "a", "l">>, <<"e", "a", "t">>,
      <<"r", "e", "s", "t", "a", "u", "r", "a", "n", "t">>,
      <<"p", "a", "s", "t", "a">>, <<"p", "i", "z", "z", "a">>,
      <<"s", "t", "e", "a", "k">>, <<"s", "u", "s", "h", "i">>,
      <<"c", "o", "f", "f", "e", "e">>, <<"c", "a", "k", "e">>,
      <<"d", "e", "s", "s", "e", "r", "t">>, <<"l", "u", "n", "c", "h">>,
      <<"d", "i", "n", "n", "e", "r">>,
      <<"b", "r", "e", "a", "k", "f", "a", "s", "t">>,
      <<"b", "u", "r", "g", "e", "r">>,
      <<"h", "a", "m", "b", "u", "r", "g", "e", "r">>, <<"r", "a", "m", "e", "n">>,
      <<"n", "o", "o", "d", "l", "e">>>>

person_keywords ==
    <<<<"p", "e", "r", "s", "o", "n">>, <<"p", "e", "o", "p", "l", "e">>,
      <<"f", "a", "m", "i", "l", "y">>, <<"f", "r", "i", "e", "n", "d">>,
      <<"p", "o", "r", "t", "r", "a", "i", "t">>, <<"s", "e", "l", "f", "i", "e">>,
      <<"g", "r", "o", "u", "p">>, <<"f", "a", "c", "e">>, <<"m", "a", "n">>,
      <<"w", "o", "m", "a", "n">>, <<"c", "h", "i", "l", "d">>>>

place_keywords ==
    <<<<"b", "e", "a", "c", "h">>, <<"m", "o", "u", "n", "t", "a", "i", "n">>,
      <<"c", "i", "t", "y">>, <<"p", "a", "r", "k">>,
      <<"b", "u", "i", "l", "d", "i", "n", "g">>, <<"s", "t", "r", "e", "e", "t">>,
      <<"o", "c", "e", "a", "n">>, <<"l", "a", "k", "e">>,
      <<"f", "o", "r", "e", "s", "t">>, <<"b", "r", "i", "d", "g", "e">>,
      <<"c", "a", "s", "i", "n", "o">>>>

activity_keywords ==
    <<<<"w", "a", "l", "k", "i", "n", "g">>, <<"r", "u", "n", "n", "i", "n", "g">>,
      <<"s", "w", "i", "m", "m", "i", "n", "g">>,
      <<"p", "l", "a", "y", "i", "n", "g">>, <<"d", "a", "n", "c", "i", "n", "g">>,
      <<"s", "i", "n", "g", "i", "n", "g">>, <<"c", "o", "o", "k", "i", "n", "g">>,
      <<"r", "e", "a", "d", "i", "n", "g">>, <<"t", "r", "a", "v", "e", "l">>>>

\* any(kw in text for kw in keywords)
AnyIn(keywords, text) == \E n \in 1..Len(keywords) : Contains(text, keywords[n])

\* A policy that looks at the person keywords before the food keywords.
get_dynamic_threshold_person_first(search_text) ==
    LET search_lower == LowerStr(search_text)
    IN  IF AnyIn(person_keywords, search_lower) THEN ThresholdPerson
        ELSE IF AnyIn(food_keywords, search_lower) THEN ThresholdFood
        ELSE IF AnyIn(place_keywords, search_lower) THEN ThresholdPlace
        ELSE IF AnyIn(activity_keywords, search_lower) THEN ThresholdActivity
        ELSE ThresholdDefault

\* SearchEngine._get_dynamic_threshold.
get_dynamic_threshold(search_text) ==
    LET search_lower == LowerStr(search_text)
    IN  IF AnyIn(food_keywords, search_lower) THEN ThresholdFood
        ELSE IF AnyIn(person_keywords, search_lower) THEN ThresholdPerson
        ELSE IF AnyIn(place_keywords, search_lower) THEN ThresholdPlace
        ELSE IF AnyIn(activity_keywords, search_lower) THEN ThresholdActivity
        ELSE ThresholdDefault

\* ------------------------------------------------------- metadata filters

\* time_range['end'] followed by ' 23:59:59'.
EndParam(end) == end \o <<SepSpace, EndOfDay>>

\* SearchEngine._filter_by_date: the ids, in scan order, of the rows inside
\* the range.  A comparison with a NULL taken_date is not true.
filter_by_date(imgs, time_range) ==
    SelectSeq(ScanRows(imgs), LAMBDA i :
        /\ IsSome(time_range.start) =>
              /\ IsSome(imgs[i].taken_date)
              /\ TextLeq(Val(time_range.start), Val(imgs[i].taken_date))
        /\ IsSome(time_range.end) =>
              /\ IsSome(imgs[i].taken_date)
              /\ TextLeq(Val(imgs[i].taken_date), EndParam(Val(time_range.end))))

\* The places of the model, [lat, lon] in hundredths of a degree.
Busan == [lat |-> 3518, lon |-> 12908]
Gwangalli == [lat |-> 3515, lon |-> 12912]
Jeju == [lat |-> 3350, lon |-> 12653]

\* SearchEngine._haversine_distance in metres, tabulated from the formula
\* (R = 6371 km) for the places of the model.
haversine_distance(lat1, lon1, lat2, lon2) ==
    LET a == [lat |-> lat1, lon |-> lon1]
        b == [lat |-> lat2, lon |-> lon2]
    IN  CASE a = b -> 0
          [] {a, b} = {Busan, Gwangalli} -> 4934
          [] {a, b} = {Busan, Jeju} -> 299499
          [] {a, b} = {Gwangalli, Jeju} -> 300363

\* SearchEngine._filter_by_gps: the candidates with both coordinates stored
\* that lie within the radius of the plan's coordinates.
filter_by_gps(imgs, candidate_ids, location_data) ==
    IF candidate_ids = << >> \/ IsNone(location_data.coordinates) THEN << >>
    ELSE LET coords == Val(location_data.coordinates)
         IN  SelectSeq(candidate_ids, LAMBDA i :
                 /\ IsSome(imgs[i].gps_lat)
                 /\ IsSome(imgs[i].gps_lon)
                 /\ haversine_distance(coords.lat, coords.lon,
                                       Val(imgs[i].gps_lat), Val(imgs[i].gps_lon))
                      <= coords.radius_km * 1000)

\* The suffix list of _normalize_korean_location, longest first.
suffixes ==
    <<<<"teuk", "byeol", "ja", "chi", "do">>, <<"teuk", "byeol", "ja", "chi", "si">>,
      <<"gwang", "yeok", "si">>, <<"teuk", "byeol", "si">>, <<"ja", "chi", "do">>,
      <<"ja", "chi", "si">>, <<"do">>, <<"si">>, <<"gun">>, <<"gu">>>>

\* The first suffix of the list that the name ends with and is longer than,
\* as an index into suffixes; 0 when there is none.
FirstSuffix(name) ==
    LET hits == {n \in 1..Len(suffixes) :
                    EndsWith(name, suffixes[n]) /\ Len(name) > Len(suffixes[n])}
    IN  IF hits = {} THEN 0 ELSE CHOOSE n \in hits : \A m \in hits : n <= m

\* SearchEngine._normalize_korean_location: the set of variants of a name.
normalize_korean_location(name) ==
    LET n == FirstSuffix(name)
        base_name == IF n = 0 THEN name
                     ELSE SubSeq(name, 1, Len(name) - Len(suffixes[n]))
    IN  IF base_name = name THEN {name}
        ELSE {name, base_name, base_name \o <<"si">>, base_name \o <<"do">>}

\* How many of the plan's names the name filter looks at.
NamesUsed == 2

\* The names the name filter uses, without their variants.
NamesWithoutVariants(location_names) ==
    {location_names[n] : n \in 1..Len(Take(location_names, NamesUsed))}

\* The variants of the names the name filter uses: location_names[:2].
AllVariants(location_names) ==
    UNION {normalize_korean_location(location_names[n]) :
               n \in 1..Len(Take(location_names, NamesUsed))}

\* SearchEngine._filter_by_location_name: the candidates without coordinates
\* whose location_name is LIKE one of the variants.
filter_by_location_name(imgs, candidate_ids, location_data) ==
    IF candidate_ids = << >> \/ location_data.names = << >> THEN << >>
    ELSE SelectSeq(candidate_ids, LAMBDA i :
             /\ IsSome(imgs[i].location_name)
             /\ IsNone(imgs[i].gps_lat)
             /\ IsNone(imgs[i].gps_lon)
             /\ \E v \in AllVariants(location_data.names) :
                    LikeContains(Val(imgs[i].location_name), v))

\* SearchEngine._filter_by_location_hybrid: list(set(gps + string)); the order
\* of the list is not used by search.
filter_by_location_hybrid(imgs, candidate_ids, location_data) ==
    IF candidate_ids = << >> THEN << >>
    ELSE SeqOfSet(Range(filter_by_gps(imgs, candidate_ids, location_data))
                  \cup Range(filter_by_location_name(imgs, candidate_ids, location_data)))

\* ------------------------------------------------------------------ search

\* The generic travel/landscape keywords of search.
generic_keywords ==
    <<<<"yeo", "haeng">>, <<"t", "r", "a", "v", "e", "l">>, <<"pung", "gyeong">>,
      <<"l", "a", "n", "d", "s", "c", "a", "p", "e">>,
      <<"s", "c", "e", "n", "i", "c">>, <<"gwan", "gwang">>, <<"t", "o", "u", "r">>,
      <<"t", "r", "i", "p">>, <<"v", "a", "c", "a", "t", "i", "o", "n">>,
      <<"sa", "jin">>, <<"p", "h", "o", "t", "o">>,
      <<"p", "i", "c", "t", "u", "r", "e">>, <<"i", "m", "a", "g", "e">>,
      <<"n", "a", "t", "u", "r", "e">>, <<"ja", "yeon">>, <<"v", "i", "e", "w">>,
      <<"byu">>, <<"gyeong", "chi">>, <<"i", "s", "l", "a", "n", "d">>, <<"seom">>>>

\* The keywords of the plan that neither contain a location name nor a
\* generic keyword.
meaningful_keywords(keywords, location_names) ==
    SelectSeq(keywords, LAMBDA kw :
        LET kw_lower == LowerStr(kw)
            is_location_related ==
                \E n \in 1..Len(location_names) :
                    Contains(kw_lower, LowerStr(location_names[n]))
            is_generic == AnyIn(generic_keywords, kw_lower)
        IN  ~is_location_related /\ ~is_generic)

\* ORDER BY taken_date DESC on two rows: a may come before b.  NULL sorts
\* below every text; rows of equal taken_date come in either order.
DateDescOk(imgs, a, b) ==
    \/ IsNone(imgs[b].taken_date)
    \/ /\ IsSome(imgs[a].taken_date)
       /\ TextLeq(Val(imgs[b].taken_date), Val(imgs[a].taken_date))

\* The same query with ORDER BY taken_date ASC.
sort_by_date_asc(imgs, ids, limit) ==
    IF ids = << >> THEN {<< >>}
    ELSE {Take(p, limit) :
            p \in {q \in Perms(Range(ids)) :
                      \A i, j \in 1..Len(q) : i < j => DateDescOk(imgs, q[j], q[i])}}

\* SearchEngine._sort_by_date_desc: the lists the query may return.
sort_by_date_desc(imgs, ids, limit) ==
    IF ids = << >> THEN {<< >>}
    ELSE {Take(p, limit) :
            p \in {q \in Perms(Range(ids)) :
                      \A i, j \in 1..Len(q) : i < j => DateDescOk(imgs, q[i], q[j])}}

\* The inner product of the query text's vector with a stored vector; sims
\* gives it for each direction, and it is 0 for the zero vector.
InnerProduct(sims, v) == IF v.tok = "zero" THEN 0 ELSE sims[v.tok]

\* The most hits one FAISS query asks for.
AnnTopK == 100

\* faiss_index.search(text_vector, k): the positions of the k best vectors,
\* best first; vectors of equal score come in either order.
FaissSearch(index, sims, k) ==
    LET vs == Val(index).vectors
    IN  {Take(h, k) :
           h \in {q \in Perms(1..Len(vs)) :
                     \A i, j \in 1..Len(q) :
                        i < j => InnerProduct(sims, vs[q[i]]) >= InnerProduct(sims, vs[q[j]])}}

\* SearchEngine._search_by_clip_legacy: every candidate row (every row when
\* there is no candidate) scored by np.dot, which raises on a vector of another
\* length; list.sort is stable, so equal scores stay in scan order.
search_by_clip_legacy(imgs, sims, candidate_ids) ==
    LET rows == IF candidate_ids # << >> THEN SeqOfSet(Range(candidate_ids) \cap DOMAIN imgs)
                ELSE ScanRows(imgs)
        score(i) == InnerProduct(sims, FromBuffer(imgs[i].clip_vector))
        before(a, b) == score(a) > score(b) \/ (score(a) = score(b) /\ a < b)
        sorted == CHOOSE q \in Perms(Range(rows)) :
                      \A i, j \in 1..Len(q) : i < j => before(q[i], q[j])
    IN  IF \E n \in 1..Len(rows) : FromBuffer(imgs[rows[n]].clip_vector).dim # VectorDim
        THEN {[status |-> "ValueError", results |-> << >>]}
        ELSE {[status |-> "ok",
               results |-> [n \in 1..Len(sorted) |->
                               [id |-> sorted[n], similarity |-> score(sorted[n])]]]}

\* SearchEngine._search_by_clip_faiss on the engine state eng: the outcomes it
\* may have.  id_mapping[idx] raises when the mapping is shorter than the index.
search_by_clip_faiss(imgs, eng, sims, candidate_ids) ==
    IF IsNone(eng.faiss_index) \/ Len(eng.id_mapping) = 0
    THEN search_by_clip_legacy(imgs, sims, candidate_ids)
    ELSE LET k  == Min(AnnTopK, NTotal(eng.faiss_index))
             vs == Val(eng.faiss_index).vectors
         IN  {IF \E n \in 1..Len(h) : h[n] > Len(eng.id_mapping)
              THEN [status |-> "IndexError", results |-> << >>]
              ELSE [status |-> "ok",
                    results |->
                       SelectSeq([n \in 1..Len(h) |->
                                     [id |-> eng.id_mapping[h[n]],
                                      similarity |-> InnerProduct(sims, vs[h[n]])]],
                                 LAMBDA r : r.id \in Range(candidate_ids))] :
              h \in FaissSearch(eng.faiss_index, sims, k)}

\* The threshold step with a hit AT the threshold counted as passing.
apply_threshold_inclusive(clip_results, search_text, top_k) ==
    LET threshold == get_dynamic_threshold(search_text)
        filtered_results == SelectSeq(clip_results, LAMBDA r : r.similarity >= threshold)
    IN  IF filtered_results = << >> /\ clip_results # << >>
        THEN IF clip_results[1].similarity >= TopHitFloor
             THEN Take(clip_results, 1)
             ELSE << >>
        ELSE Take(filtered_results, top_k)

\* The threshold step without the cut to top_k.
apply_threshold_uncut(clip_results, search_text, top_k) ==
    LET threshold == get_dynamic_threshold(search_text)
        filtered_results == SelectSeq(clip_results, LAMBDA r : r.similarity > threshold)
    IN  IF filtered_results = << >> /\ clip_results # << >>
        THEN IF clip_results[1].similarity >= TopHitFloor
             THEN Take(clip_results, 1)
             ELSE << >>
        ELSE filtered_results

\* The threshold step of search on the CLIP hits.
apply_threshold(clip_results, search_text, top_k) ==
    LET threshold == get_dynamic_threshold(search_text)
        filtered_results == SelectSeq(clip_results, LAMBDA r : r.similarity > threshold)
    IN  IF filtered_results = << >> /\ clip_results # << >>
        THEN IF clip_results[1].similarity >= TopHitFloor
             THEN Take(clip_results, 1)
             ELSE << >>
        ELSE Take(filtered_results, top_k)

\* The people filter keeping every result that has a face row, named or not.
filter_by_any_face(fcs, results, people) ==
    SelectSeq(results, LAMBDA r : \E n \in 1..Len(fcs) : fcs[n].image_id = r.id)

\* SearchEngine._filter_by_people: the results with a face row that names one
\* of the people.
filter_by_people(fcs, results, people) ==
    SelectSeq(results, LAMBDA r :
        \E n \in 1..Len(fcs) :
            /\ fcs[n].image_id = r.id
            /\ IsSome(fcs[n].person_name)
            /\ Val(fcs[n].person_name) \in Range(people))

\* SearchEngine._enrich_results: the results whose row exists, with its columns.
enrich_results(imgs, results) ==
    LET found == SelectSeq(results, LAMBDA r : r.id \in DOMAIN imgs)
    IN  [n \in 1..Len(found) |->
            [id            |-> found[n].id,
             similarity    |-> found[n].similarity,
             file_path     |-> imgs[found[n].id].file_path,
             taken_date    |-> imgs[found[n].id].taken_date,
             location_name |-> imgs[found[n].id].location_name]]

\* Similarities search assigns without a CLIP query, in hundredths.
SimilarityLocationOnly == 100
SimilarityNoQuery == 0

\* SearchEngine.search on the plan: the outcomes it may have, each with the
\* branch taken and whether the text was embedded.
SearchOutcomes(imgs, fcs, eng, parsed_query, top_k, sims) ==
    LET date_filtered == filter_by_date(imgs, parsed_query.time_range)
        location_filtered ==
            IF IsSome(parsed_query.location)
            THEN Some(filter_by_location_hybrid(imgs, date_filtered,
                                                Val(parsed_query.location)))
            ELSE None
        has_location == IsSome(parsed_query.location)
        location_names == IF has_location THEN Val(parsed_query.location).names ELSE << >>
        has_keywords == meaningful_keywords(parsed_query.keywords, location_names) # << >>
        finish(results) ==
            enrich_results(imgs,
                IF parsed_query.people # << >>
                THEN filter_by_people(fcs, results, parsed_query.people)
                ELSE results)
    IN  IF has_location /\ ~has_keywords
        THEN {[status |-> "ok", branch |-> "A", encoded |-> FALSE,
               results |-> finish([n \in 1..Len(ids) |->
                                     [id |-> ids[n], similarity |-> SimilarityLocationOnly]])] :
              ids \in sort_by_date_desc(imgs, Val(location_filtered), top_k)}
        ELSE IF parsed_query.search_text # << >>
        THEN LET candidate_ids ==
                     IF IsSome(location_filtered) /\ Val(location_filtered) # << >>
                     THEN Val(location_filtered)
                     ELSE date_filtered
             IN  {IF c.status # "ok"
                  THEN [status |-> c.status, branch |-> "B", encoded |-> TRUE,
                        results |-> << >>]
                  ELSE [status |-> "ok", branch |-> "B", encoded |-> TRUE,
                        results |-> finish(apply_threshold(c.results,
                                               parsed_query.search_text, top_k))] :
                  c \in search_by_clip_faiss(imgs, eng, sims, candidate_ids)}
        ELSE {[status |-> "ok", branch |-> "C", encoded |-> FALSE,
               results |-> finish([n \in 1..Len(Take(date_filtered, top_k)) |->
                                     [id |-> date_filtered[n],
                                      similarity |-> SimilarityNoQuery]])]}

\* SearchEngine.search(parsed_query, top_k); sims is what the CLIP text
\* encoder makes of search_text against each direction.
search(parsed_query, top_k, sims) ==
    /\ \E o \in SearchOutcomes(images, faces, Engine, parsed_query, top_k, sims) :
          op' = [name |-> "search", plan |-> parsed_query, top_k |-> top_k,
                 sims |-> sims, status |-> o.status, branch |-> o.branch,
                 encoded |-> o.encoded, results |-> o.results]
    /\ UNCHANGED <<requests, storeVars, engineVars, visualVars, puts, run>>

\* ------------------------------------------------------ visual similarity

\* The cosine of two stored vectors after normalize_L2: 1.0 for the same image
\* content, 0.80 for the two contents of the library, 0 with a zero vector.
Cosine(u, v) ==
    IF u.tok = "zero" \/ v.tok = "zero" THEN 0
    ELSE IF u.tok = v.tok THEN 100 ELSE 80

\* VisualSearchEngine._get_vector: None when the row is gone.
get_vector(imgs, image_id) ==
    IF image_id \in DOMAIN imgs THEN Some(FromBuffer(imgs[image_id].clip_vector)) ELSE None

\* VisualSearchEngine._get_image_info: None when the row is gone.
get_image_info(imgs, image_id) ==
    IF image_id \in DOMAIN imgs
    THEN Some([id |-> image_id, file_path |-> imgs[image_id].file_path,
               taken_date |-> imgs[image_id].taken_date,
               location_name |-> imgs[image_id].location_name,
               gps_lat |-> imgs[image_id].gps_lat, gps_lon |-> imgs[image_id].gps_lon])
    ELSE None

\* The loop of find_similar_by_image over the hits (positions of the index, best
\* first): the query photo and the hits whose row is gone are skipped, and the
\* loop breaks after an append that fills top_k.
RECURSIVE SimilarLoop(_, _, _)
SimilarLoop(c, hits, results) ==
    IF hits = << >> THEN results
    ELSE LET result_id == c.eng.id_mapping[Head(hits)]
             info      == get_image_info(c.imgs, result_id)
         IN  IF c.exclude_self /\ result_id = c.image_id
             THEN SimilarLoop(c, Tail(hits), results)
             ELSE IF IsNone(info)
             THEN IF Len(results) >= c.top_k THEN results
                  ELSE SimilarLoop(c, Tail(hits), results)
             ELSE LET appended ==
                          Append(results,
                                 [id |-> result_id,
                                  file_path |-> Val(info).file_path,
                                  similarity |->
                                      Cosine(c.query_vector,
                                             Val(c.eng.faiss_index).vectors[Head(hits)])])
                  IN  IF Len(appended) >= c.top_k THEN appended
                      ELSE SimilarLoop(c, Tail(hits), appended)

\* VisualSearchEngine.find_similar_by_image: the outcomes it may have (hits of
\* equal score come in any order).  faiss refuses a query of another dimension.
SimilarOutcomes(imgs, eng, image_id, top_k, exclude_self) ==
    LET query_vector == get_vector(imgs, image_id)
        k == IF exclude_self THEN top_k + 1 ELSE top_k
    IN  IF IsNone(eng.faiss_index) \/ IsNone(query_vector)
        THEN {[status |-> "ok", results |-> << >>]}
        ELSE IF Val(query_vector).dim # Val(eng.faiss_index).d
        THEN {[status |-> "AssertionError", results |-> << >>]}
        ELSE LET sims == [t \in Directions |-> Cosine(Val(query_vector), UnitVector(t))]
             IN  {[status |-> "ok",
                   results |->
                       SimilarLoop([imgs |-> imgs, eng |-> eng, image_id |-> image_id,
                                    top_k |-> top_k, exclude_self |-> exclude_self,
                                    query_vector |-> Val(query_vector)],
                                   hits, << >>)] :
                    hits \in FaissSearch(eng.faiss_index, sims, k)}

find_similar_by_image(image_id, top_k, exclude_self) ==
    /\ vs_constructed
    /\ \E o \in SimilarOutcomes(images, VisualEngine, image_id, top_k, exclude_self) :
          op' = [name |-> "find_similar_by_image", image_id |-> image_id,
                 top_k |-> top_k, exclude_self |-> exclude_self,
                 status |-> o.status, results |-> o.results]
    /\ UNCHANGED <<requests, storeVars, engineVars, visualVars, puts, run>>

\* ---------------------------------------------------------- related photos

\* The row a find_by_* method returns for the images row i.
RelatedRow(imgs, i, match_type) ==
    [id |-> i, file_path |-> imgs[i].file_path, taken_date |-> imgs[i].taken_date,
     location_name |-> imgs[i].location_name,
     gps_lat |-> imgs[i].gps_lat, gps_lon |-> imgs[i].gps_lon,
     match_type |-> match_type]

\* np.cos(np.radians(gps_lat)) in thousandths, tabulated for the latitudes of
\* the model (hundredths of a degree).
CosMilli(gps_lat) ==
    CASE gps_lat = 0 -> 1000
      [] gps_lat = 3350 -> 834
      [] gps_lat = 3515 -> 818
      [] gps_lat = 3518 -> 817
      [] gps_lat = 5148 -> 623

\* Python's truth value of a stored coordinate: None and 0.0 are false.
Truthy(coordinate) == IsSome(coordinate) /\ Val(coordinate) # 0

\* The bounding box of find_by_same_location in millionths of a degree:
\* lat_range = radius_km / 111.0, lon_range = radius_km / (111.0 * |cos(lat)|).
BoundingBox(gps_lat, gps_lon, radius_km) ==
    LET lat_range == (radius_km * 1000000) \div 111
        lon_range == (lat_range * 1000) \div CosMilli(gps_lat)
    IN  [lat_min |-> gps_lat * 10000 - lat_range, lat_max |-> gps_lat * 10000 + lat_range,
         lon_min |-> gps_lon * 10000 - lon_range, lon_max |-> gps_lon * 10000 + lon_range]

\* gps_lat BETWEEN ? AND ? AND gps_lon BETWEEN ? AND ?: not true of a NULL.
InBox(box, lat, lon) ==
    /\ IsSome(lat)
    /\ IsSome(lon)
    /\ box.lat_min <= Val(lat) * 10000
    /\ Val(lat) * 10000 <= box.lat_max
    /\ box.lon_min <= Val(lon) * 10000
    /\ Val(lon) * 10000 <= box.lon_max

RECURSIVE Strip(_)
\* str.strip() on the blanks of a text.
Strip(t) ==
    IF t = << >> THEN t
    ELSE IF Head(t) = " " THEN Strip(Tail(t))
    ELSE IF t[Len(t)] = " " THEN Strip(SubSeq(t, 1, Len(t) - 1))
    ELSE t

\* location_name.split(",")[0].strip()
PrimaryLocation(location_name) ==
    LET commas == {n \in 1..Len(location_name) : location_name[n] = ","}
        first  == IF commas = {} THEN Len(location_name) + 1
                  ELSE CHOOSE n \in commas : \A m \in commas : n <= m
    IN  Strip(SubSeq(location_name, 1, first - 1))

\* VisualSearchEngine.find_by_same_location: the strategy taken and the rows
\* returned (the scan's first top_k matches).
same_location(imgs, image_id, top_k, radius_km) ==
    LET base_info == get_image_info(imgs, image_id)
        others    == SelectSeq(ScanRows(imgs), LAMBDA i : i # image_id)
    IN  IF IsNone(base_info) THEN [strategy |-> "none", results |-> << >>]
        ELSE IF Truthy(Val(base_info).gps_lat) /\ Truthy(Val(base_info).gps_lon)
        THEN LET box == BoundingBox(Val(Val(base_info).gps_lat),
                                    Val(Val(base_info).gps_lon), radius_km)
                 rows == SelectSeq(others, LAMBDA i :
                             InBox(box, imgs[i].gps_lat, imgs[i].gps_lon))
             IN  [strategy |-> "gps",
                  results |-> [n \in 1..Len(Take(rows, top_k)) |->
                                  RelatedRow(imgs, rows[n], "location")]]
        ELSE IF IsSome(Val(base_info).location_name)
                /\ Val(Val(base_info).location_name) # << >>
        THEN LET primary_location == PrimaryLocation(Val(Val(base_info).location_name))
                 rows == SelectSeq(others, LAMBDA i :
                             /\ IsSome(imgs[i].location_name)
                             /\ LikeContains(Val(imgs[i].location_name), primary_location))
             IN  [strategy |-> "name",
                  results |-> [n \in 1..Len(Take(rows, top_k)) |->
                                  RelatedRow(imgs, rows[n], "location")]]
        ELSE [strategy |-> "none", results |-> << >>]

find_by_same_location(image_id, top_k, radius_km) ==
    /\ vs_constructed
    /\ LET r == same_location(images, image_id, top_k, radius_km)
       IN  op' = [name |-> "find_by_same_location", image_id |-> image_id,
                  top_k |-> top_k, radius_km |-> radius_km,
                  strategy |-> r.strategy, results |-> r.results]
    /\ UNCHANGED <<requests, storeVars, engineVars, visualVars, puts, run>>

\* A window that also takes in the day after.
DateWindowClosed(taken_date, date_range_days) ==
    [start |-> DateOnly(DayOf(taken_date) - date_range_days),
     end   |-> DateOnly(DayOf(taken_date) + date_range_days + 2)]

\* The two bounds find_by_same_date binds: the day of base_date minus
\* date_range_days, and the day of base_date plus date_range_days + 1, each
\* rendered by strftime("%Y-%m-%d").
DateWindow(taken_date, date_range_days) ==
    [start |-> DateOnly(DayOf(taken_date) - date_range_days),
     end   |-> DateOnly(DayOf(taken_date) + date_range_days + 1)]

\* VisualSearchEngine.find_by_same_date: the results it may return (rows of
\* equal taken_date come in any order under ORDER BY taken_date).
same_date(imgs, image_id, top_k, date_range_days) ==
    LET base_info == get_image_info(imgs, image_id)
    IN  IF IsNone(base_info) \/ IsNone(Val(base_info).taken_date) THEN {<< >>}
        ELSE LET w == DateWindow(Val(Val(base_info).taken_date), date_range_days)
                 match == {i \in DOMAIN imgs :
                              /\ i # image_id
                              /\ IsSome(imgs[i].taken_date)
                              /\ TextLeq(w.start, Val(imgs[i].taken_date))
                              /\ ~TextLeq(w.end, Val(imgs[i].taken_date))}
             IN  {[n \in 1..Len(Take(q, top_k)) |-> RelatedRow(imgs, q[n], "date")] :
                     q \in {r \in Perms(match) :
                               \A m, n \in 1..Len(r) :
                                  m < n => TextLeq(Val(imgs[r[m]].taken_date),
                                                   Val(imgs[r[n]].taken_date))}}

find_by_same_date(image_id, top_k, date_range_days) ==
    /\ vs_constructed
    /\ \E results \in same_date(images, image_id, top_k, date_range_days) :
          op' = [name |-> "find_by_same_date", image_id |-> image_id,
                 top_k |-> top_k, date_range_days |-> date_range_days,
                 results |-> results]
    /\ UNCHANGED <<requests, storeVars, engineVars, visualVars, puts, run>>

\* ------------------------------------------- the SearchEngine step by step

\* A call of _build_faiss_index and a call of _search_by_clip_faiss on the same
\* SearchEngine, each advancing one statement at a time; no lock is taken by
\* either.  run.rebuild and run.search hold the locals of the two calls.

\* _build_faiss_index up to the fetchall: the rows are read; without rows the
\* call returns.
build_fetch ==
    /\ IsNone(run.rebuild)
    /\ LET ids  == ScanRows(images)
           rows == [n \in 1..Len(ids) |->
                       [image_id |-> ids[n], vector |-> FromBuffer(images[ids[n]].clip_vector)]]
       IN  run' = IF rows = << >>
                  THEN [run EXCEPT !.builds = @ \cup {Engine}]
                  ELSE [run EXCEPT !.rebuild =
                            Some([pc |-> "reset", rows |-> rows, n |-> 1, vectors |-> << >>])]
    /\ op' = [name |-> "build_fetch"]
    /\ UNCHANGED <<requests, storeVars, engineVars, visualVars, puts>>

\* self.id_mapping = [].
build_reset ==
    /\ IsSome(run.rebuild) /\ Val(run.rebuild).pc = "reset"
    /\ id_mapping' = << >>
    /\ run' = [run EXCEPT !.rebuild = Some([Val(@) EXCEPT !.pc = "loop"])]
    /\ op' = [name |-> "build_reset"]
    /\ UNCHANGED <<requests, storeVars, faiss_index, visualVars, puts>>

\* One turn of the loop over the rows: a row of the engine's dimension is
\* appended to vectors and its id to self.id_mapping.
build_row ==
    /\ IsSome(run.rebuild) /\ Val(run.rebuild).pc = "loop"
    /\ Val(run.rebuild).n <= Len(Val(run.rebuild).rows)
    /\ LET f   == Val(run.rebuild)
           row == f.rows[f.n]
       IN  IF row.vector.dim # VectorDim
           THEN /\ run' = [run EXCEPT !.rebuild = Some([f EXCEPT !.n = @ + 1])]
                /\ UNCHANGED id_mapping
           ELSE /\ run' = [run EXCEPT !.rebuild =
                              Some([f EXCEPT !.n = @ + 1,
                                             !.vectors = Append(@, row.vector)])]
                /\ id_mapping' = Append(id_mapping, row.image_id)
    /\ op' = [name |-> "build_row"]
    /\ UNCHANGED <<requests, storeVars, faiss_index, visualVars, puts>>

\* After the loop: without vectors the call returns, else the new index is
\* assigned to self.faiss_index.  The build is complete.
build_publish ==
    /\ IsSome(run.rebuild) /\ Val(run.rebuild).pc = "loop"
    /\ Val(run.rebuild).n > Len(Val(run.rebuild).rows)
    /\ faiss_index' = IF Val(run.rebuild).vectors = << >> THEN faiss_index
                      ELSE FlatIP(VectorDim, Val(run.rebuild).vectors)
    /\ run' = [run EXCEPT !.rebuild = None,
                          !.builds = @ \cup {[faiss_index |-> faiss_index',
                                              id_mapping |-> id_mapping]}]
    /\ op' = [name |-> "build_publish"]
    /\ UNCHANGED <<requests, storeVars, id_mapping, visualVars, puts>>

\* _search_by_clip_faiss, the first test: without index or mapping the legacy
\* scan answers; else faiss_index.search gives the hits.  index and reads
\* record the index and the mappings the call has read (`or` does not read
\* id_mapping when there is no index).
clip_search(sims, candidate_ids) ==
    /\ IsNone(run.search)
    /\ IF IsNone(faiss_index) \/ Len(id_mapping) = 0
       THEN /\ \E o \in search_by_clip_legacy(images, sims, candidate_ids) :
                  op' = [name |-> "search_by_clip_faiss", status |-> o.status,
                         results |-> o.results, index |-> faiss_index,
                         reads |-> IF IsNone(faiss_index) THEN << >>
                                   ELSE <<id_mapping>>]
            /\ UNCHANGED run
       ELSE /\ \E hits \in FaissSearch(faiss_index, sims,
                                        Min(AnnTopK, NTotal(faiss_index))) :
                  run' = [run EXCEPT !.search =
                             Some([sims |-> sims, candidate_ids |-> candidate_ids,
                                   index |-> faiss_index, hits |-> hits, n |-> 1,
                                   results |-> << >>, reads |-> <<id_mapping>>])]
            /\ op' = [name |-> "clip_search"]
    /\ UNCHANGED <<requests, storeVars, engineVars, visualVars, puts>>

\* One turn of the loop over the hits: image_id = self.id_mapping[idx], which
\* raises when the mapping is too short.
clip_map ==
    /\ IsSome(run.search)
    /\ Val(run.search).n <= Len(Val(run.search).hits)
    /\ LET f   == Val(run.search)
           idx == f.hits[f.n]
       IN  IF idx > Len(id_mapping)
           THEN /\ op' = [name |-> "search_by_clip_faiss", status |-> "IndexError",
                          results |-> << >>, index |-> f.index,
                          reads |-> Append(f.reads, id_mapping)]
                /\ run' = [run EXCEPT !.search = None]
           ELSE /\ op' = [name |-> "clip_map"]
                /\ run' = [run EXCEPT !.search =
                              Some([f EXCEPT
                                  !.n = @ + 1,
                                  !.reads = Append(@, id_mapping),
                                  !.results =
                                      IF id_mapping[idx] \in Range(f.candidate_ids)
                                      THEN Append(@, [id |-> id_mapping[idx],
                                                      similarity |->
                                                          InnerProduct(f.sims,
                                                              Val(f.index).vectors[idx])])
                                      ELSE @])]
    /\ UNCHANGED <<requests, storeVars, engineVars, visualVars, puts>>

\* After the loop the results are returned (the hits came best first, and the
\* sort is stable).
clip_return ==
    /\ IsSome(run.search)
    /\ Val(run.search).n > Len(Val(run.search).hits)
    /\ op' = [name |-> "search_by_clip_faiss", status |-> "ok",
              results |-> Val(run.search).results, index |-> Val(run.search).index,
              reads |-> Val(run.search).reads]
    /\ run' = [run EXCEPT !.search = None]
    /\ UNCHANGED <<requests, storeVars, engineVars, visualVars, puts>>

\* ------------------------------------------------------------ query parser

\* The ASCII characters of the texts of the model (str.isascii).
AsciiChars ==
    {"a", "b", "c", "d", "e", "f", "g", "h", "i", "j", "k", "l", "m", "n", "o", "p",
     "q", "r", "s", "t", "u", "v", "w", "x", "y", "z", "B", "G", "J", "P", "S", " "}
IsAscii(name) == \A n \in 1..Len(name) : name[n] \in AsciiChars

\* major_cities of get_coordinates.
major_cities ==
    <<<<"nyu", "yok">>, <<"n", "e", "w", " ", "y", "o", "r", "k">>,
      <<"seo", "ul">>, <<"s", "e", "o", "u", "l">>,
      <<"bu", "san">>, <<"b", "u", "s", "a", "n">>,
      <<"do", "kyo">>, <<"t", "o", "k", "y", "o">>,
      <<"ra", "seu", "be", "ga", "seu">>, <<"l", "a", "s", " ", "v", "e", "g", "a", "s">>,
      <<"pa", "ri">>, <<"p", "a", "r", "i", "s">>,
      <<"reon", "deon">>, <<"l", "o", "n", "d", "o", "n">>,
      <<"ro", "seu", "aen", "jel", "re", "seu">>,
      <<"l", "o", "s", " ", "a", "n", "g", "e", "l", "e", "s">>>>
\* The English city names parse_query prefers for geocoding.
english_cities ==
    <<<<"n", "e", "w", " ", "y", "o", "r", "k">>,
      <<"l", "a", "s", " ", "v", "e", "g", "a", "s">>,
      <<"l", "o", "s", " ", "a", "n", "g", "e", "l", "e", "s">>,
      <<"p", "a", "r", "i", "s">>, <<"l", "o", "n", "d", "o", "n">>,
      <<"t", "o", "k", "y", "o">>, <<"s", "e", "o", "u", "l">>,
      <<"b", "u", "s", "a", "n">>>>

\* A get_coordinates without its try/except: what is no hit raises.
get_coordinates_unguarded(location_name, response) ==
    IF response.kind # "hit"
    THEN [raised |-> TRUE, ret |-> None]
    ELSE [raised |-> FALSE,
          ret |-> Some([lat |-> response.lat, lon |-> response.lon, radius_km |-> 5])]

\* QueryParser.get_coordinates on the gazetteer's answer, of kind "timeout"
\* (requests raises), "garbage" (response.json() raises), "empty" (an empty
\* list), "malformed" (JSON whose first entry has no lat) or "hit" (a list
\* whose first entry has lat and lon).  raised tells whether the call raised.
get_coordinates(location_name, response) ==
    IF response.kind # "hit"
    THEN [raised |-> FALSE, ret |-> None]
    ELSE [raised |-> FALSE,
          ret |-> Some([lat |-> response.lat, lon |-> response.lon,
                        radius_km |-> IF AnyIn(major_cities, LowerStr(location_name))
                                      THEN 20 ELSE 5])]

\* A _fallback_parse without its hints.
fallback_parse_plain(user_query) ==
    [keywords    |-> << >>,
     time_range  |-> [start |-> None, end |-> None],
     people      |-> << >>,
     search_text |-> user_query,
     location    |-> None]

\* QueryParser._fallback_parse.
fallback_parse(user_query) ==
    [keywords    |-> << >>,
     time_range  |-> IF Contains(user_query, <<"jak", "nyeon", " ", "yeo", "reum">>)
                     THEN [start |-> Some(DateOnly(20240601)), end |-> Some(DateOnly(20240831))]
                     ELSE IF Contains(user_query, <<"jak", "nyeon">>)
                     THEN [start |-> Some(DateOnly(20240101)), end |-> Some(DateOnly(20241231))]
                     ELSE [start |-> None, end |-> None],
     people      |-> IF Contains(user_query, <<"eom", "ma">>) THEN <<"eomma">> ELSE << >>,
     search_text |-> IF Contains(user_query, <<"pa", "seu", "ta">>)
                     THEN <<"p", "a", "s", "t", "a", " ", "i", "t", "a", "l", "i", "a", "n",
                            " ", "f", "o", "o", "d">>
                     ELSE user_query,
     location    |-> None]

\* The name parse_query geocodes: the first ASCII name longer than 2 that
\* contains an English city name, else the first ASCII name longer than 2,
\* else the first name.
location_for_coords(location_names) ==
    LET ascii == SelectSeq(location_names, LAMBDA name : IsAscii(name) /\ Len(name) > 2)
        city  == SelectSeq(ascii, LAMBDA name : AnyIn(english_cities, LowerStr(name)))
    IN  IF city # << >> THEN city[1]
        ELSE IF ascii # << >> THEN ascii[1]
        ELSE location_names[1]

\* QueryParser.parse_query on the LLM's reply [kind, value]: kind "error" (the
\* call raised), "invalid" (json.loads raised), "list" (JSON that is no
\* object) or "json" (an object, value holding its fields).  The plan, whether
\* it is the fallback's, and the names sent to the gazetteer.
parse_query(user_query, reply, response) ==
    IF reply.kind # "json"
    THEN [plan |-> fallback_parse(user_query), fallback |-> TRUE, asked |-> << >>]
    ELSE IF reply.value.location_names = << >>
    THEN [plan |-> [keywords |-> reply.value.keywords,
                    time_range |-> reply.value.time_range,
                    people |-> reply.value.people,
                    search_text |-> reply.value.search_text,
                    location |-> None],
          fallback |-> FALSE, asked |-> << >>]
    ELSE LET name   == location_for_coords(reply.value.location_names)
             coords == get_coordinates(name, response)
         IN  IF coords.raised
             THEN [plan |-> fallback_parse(user_query), fallback |-> TRUE,
                   asked |-> <<[name |-> name, ret |-> None]>>]
             ELSE [plan |-> [keywords |-> reply.value.keywords,
                             time_range |-> reply.value.time_range,
                             people |-> reply.value.people,
                             search_text |-> reply.value.search_text,
                             location |-> Some([names |-> reply.value.location_names,
                                                coordinates |-> coords.ret])],
                   fallback |-> FALSE,
                   asked |-> <<[name |-> name, ret |-> coords.ret]>>]

\* A call of get_coordinates: one request to the gazetteer.
GetCoordinates(location_name, response) ==
    /\ Len(requests) < MaxRequests
    /\ LET c == get_coordinates(location_name, response)
       IN  /\ requests' = Append(requests, [name |-> location_name, ret |-> c.ret])
           /\ op' = [name |-> "get_coordinates", location_name |-> location_name,
                     response |-> response, raised |-> c.raised, ret |-> c.ret]
    /\ UNCHANGED <<storeVars, engineVars, visualVars, puts, run>>

\* A call of parse_query; the whole body is inside try/except Exception, and
\* _fallback_parse raises nothing.
ParseQuery(user_query, reply, response) ==
    /\ Len(requests) < MaxRequests
    /\ LET r == parse_query(user_query, reply, response)
       IN  /\ requests' = requests \o r.asked
           /\ op' = [name |-> "parse_query", user_query |-> user_query,
                     reply |-> reply, response |-> response, raised |-> FALSE,
                     fallback |-> r.fallback, plan |-> r.plan]
    /\ UNCHANGED <<storeVars, engineVars, visualVars, puts, run>>

\* ------------------------------------------------------------------ inputs

\* Place names.  jeju_do/jeju_si: Jeju with the province/city suffix;
\* busan_gwangyeoksi: Busan Metropolitan City; gwangalli_beach: "Gwangalli
\* haesuyokjang".
jeju_do == <<"je", "ju", "do">>
jeju_si == <<"je", "ju", "si">>
jeju_en == <<"J", "e", "j", "u">>
busan == <<"bu", "san">>
busan_gwangyeoksi == <<"bu", "san", "gwang", "yeok", "si">>
gwangalli == <<"gwang", "an", "ri">>
gwangalli_en == <<"G", "w", "a", "n", "g", "a", "l", "l", "i">>
gwangalli_beach == <<"gwang", "an", "ri", " ", "hae", "su", "yok", "jang">>

\* The photo library the search specifications index from: osxphotos photos
\* with their path and picture.  36000 is a time of day in seconds.
Library ==
    {[path |-> "p1", store |-> "ok", img |-> "a",
      photo |-> [date |-> Some(<<3, 36000>>),
                 location |-> Some(<<Gwangalli.lat, Gwangalli.lon>>), place |-> None]],
     [path |-> "p2", store |-> "ok", img |-> "b",
      photo |-> [date |-> Some(<<2, 36000>>),
                 location |-> None, place |-> Some(gwangalli_beach)]],
     [path |-> "p3", store |-> "ok", img |-> "a",
      photo |-> [date |-> None,
                 location |-> Some(<<Jeju.lat, Jeju.lon>>), place |-> Some(jeju_si)]],
     [path |-> "p4", store |-> "ok", img |-> "b",
      photo |-> [date |-> Some(<<2, 36000>>),
                 location |-> None, place |-> Some(busan_gwangyeoksi)]],
     [path |-> "p5", store |-> "ok", img |-> "a",
      photo |-> [date |-> Some(<<1, 36000>>),
                 location |-> None, place |-> Some(jeju_si)]]}

\* The runs of at most MaxBatch library photos.
Batches(lib) == UNION {[1..n -> lib] : n \in 0..MaxBatch}

\* Plans.
NoRange == [start |-> None, end |-> None]
Day2To3 == [start |-> Some(DateOnly(2)), end |-> Some(DateOnly(3))]
LocJeju == [names |-> <<jeju_do, jeju_en>>, coordinates |-> None]
LocGwangalli(coords) == [names |-> <<gwangalli, gwangalli_en, busan>>, coordinates |-> coords]
BusanCoords == [lat |-> Busan.lat, lon |-> Busan.lon, radius_km |-> 5]
kw_travel == <<"yeo", "haeng">>
kw_sunset == <<"no", "eul">>
text_pasta == <<"p", "a", "s", "t", "a">>
text_sunset == <<"s", "u", "n", "s", "e", "t">>
eomma == "eomma"

\* Inner products of a query text with the directions, in hundredths.
ScoresCoarse == {20, 27}
ScoresFine == {19, 20, 26, 27}
\* What the text encoder may make of the plan's search_text; a plan without
\* search_text never reaches the encoder.
SimsFor(plan, scores) ==
    IF plan.search_text = << >> THEN {[t \in Directions |-> 0]}
    ELSE [Directions -> scores]

\* Plans that vary the location, the keywords and the search text.
SearchPlans ==
    [time_range  : {NoRange},
     location    : {None, Some(LocJeju), Some(LocGwangalli(None)),
                    Some(LocGwangalli(Some(BusanCoords)))},
     keywords    : {<<kw_travel>>, <<kw_sunset>>},
     search_text : {<< >>, text_sunset},
     people      : {<< >>}]

\* Plans that vary the search text, hence the threshold.
ThresholdPlans ==
    [time_range  : {NoRange},
     location    : {None},
     keywords    : {<< >>},
     search_text : {text_pasta, text_sunset},
     people      : {<< >>}]

\* Plans that vary the time range.
TimePlans ==
    [time_range  : [start : {None, Some(DateOnly(2))}, end : {None, Some(DateOnly(3))}],
     location    : {None},
     keywords    : {<< >>},
     search_text : {<< >>, text_sunset},
     people      : {<< >>}]

\* Plans that vary the people, over the three branches.
PeoplePlans ==
    [time_range  : {NoRange},
     location    : {None, Some(LocGwangalli(Some(BusanCoords)))},
     keywords    : {<<kw_travel>>, <<kw_sunset>>},
     search_text : {<< >>, text_sunset},
     people      : {<< >>, <<eomma>>}]

\* --------------------------------------------------------- specifications

Init ==
    /\ images = << >>
    /\ images_seq = 0
    /\ faces = << >>
    /\ faiss_index = None
    /\ id_mapping = << >>
    /\ vs_faiss_index = None
    /\ vs_id_mapping = << >>
    /\ vs_constructed = FALSE
    /\ run = Idle
    /\ requests = << >>
    /\ puts = << >>
    /\ op = [name |-> "init"]

\* An indexing run over library photos.
IndexLibrary == \E photos \in Batches(Library) : index_mac_photos(photos)

\* The operations that only read the store and the engines.
Queries == {"search", "find_similar_by_image", "search_by_clip_faiss"}

\* The caller searches with a plan of the set plans.  A query changes nothing
\* but op, so a query that follows a query has the outcomes it would have had
\* in its place: the caller is taken to query after a write (or at start).
SearchWith(plans, scores) ==
    /\ op.name \notin Queries
    /\ \E plan \in plans, top_k \in 0..MaxK :
          \E sims \in SimsFor(plan, scores) : search(plan, top_k, sims)

SearchLocation == SearchWith(SearchPlans, ScoresCoarse)
NextSearch == IndexLibrary \/ SearchLocation
\* The text search engine over an indexed library, plans varying the location.
SpecSearch == Init /\ [][NextSearch]_vars

SearchThreshold == SearchWith(ThresholdPlans, ScoresFine)
NextThreshold == IndexLibrary \/ SearchThreshold
\* The same, plans varying the search text and the scores.
SpecThreshold == Init /\ [][NextThreshold]_vars

SearchTime == SearchWith(TimePlans, ScoresCoarse)
NextTime == IndexLibrary \/ SearchTime
\* The same, plans varying the time range.
SpecTime == Init /\ [][NextTime]_vars

\* A face row for a photo id, named or not.
SaveFace ==
    \E image_id \in 1..MaxId, person_name \in {None, Some(eomma)} :
        save_face(image_id, person_name)
SearchPeople == SearchWith(PeoplePlans, ScoresCoarse)
NextPeople == IndexLibrary \/ SaveFace \/ SearchPeople
\* The same with face rows, plans varying the people.
SpecPeople == Init /\ [][NextPeople]_vars

\* The store and the builds of the two indexes.  save_image is called with
\* any embedding: a length-768 one, or a length-512 one (that of the small
\* CLIP model, which the SearchEngine calls invalid).
SaveImage ==
    \E file_path \in {"p1", "p2"},
       clip_vector \in {UnitVector("a"), UnitVector("b"), ForeignVector("a")},
       item \in {x \in Library : x.path \in {"p1", "p2"}} :
        save_image(file_path, clip_vector, extract_metadata(item.photo))

Next == SaveImage \/ rebuild_index \/ NewSearchEngine \/ NewVisualSearchEngine

Spec == Init /\ [][Next]_vars

\* Indexing runs, a VisualSearchEngine constructed at some time, and queries
\* of both engines for a text that every photo matches.
BatchPlans ==
    [time_range  : {NoRange},
     location    : {None},
     keywords    : {<<kw_sunset>>},
     search_text : {text_sunset},
     people      : {<< >>}]
ScoresHigh == {27}
SearchBatch == SearchWith(BatchPlans, ScoresHigh)
FindSimilar ==
    /\ op.name \notin Queries
    /\ \E image_id \in 1..MaxId, top_k \in 1..MaxK :
          find_similar_by_image(image_id, top_k, TRUE)
NextBatch == IndexLibrary \/ NewVisualSearchEngine \/ SearchBatch \/ FindSimilar

SpecBatch == Init /\ [][NextBatch]_vars

\* ------------------------------------------------------ claims: the search

\* The last operation was a search that returned.
Searched == op.name = "search" /\ op.status = "ok"

ResultIds == {op.results[n].id : n \in 1..Len(op.results)}
\* date_set and loc_set of the searched plan.
DateSet == Range(filter_by_date(images, op.plan.time_range))
LocSet ==
    Range(filter_by_location_hybrid(images, filter_by_date(images, op.plan.time_range),
                                    Val(op.plan.location)))
\* The searched plan has a location and no meaningful keyword.
LocationOnly ==
    /\ IsSome(op.plan.location)
    /\ meaningful_keywords(op.plan.keywords, Val(op.plan.location).names) = << >>

\* C1: in Branch B with a location in the plan, every result is a member of
\* loc_set, also when loc_set is empty.
C1_ResultsInLocSet ==
    (Searched /\ op.branch = "B" /\ IsSome(op.plan.location)) => ResultIds \subseteq LocSet

\* How recent a stored taken_date is: seconds since day 0, a missing date
\* being older than any.
Recency(i) ==
    LET t == images[i].taken_date
    IN  IF IsNone(t) THEN -1
        ELSE IF Len(Val(t)) = 1 THEN DayOf(Val(t)) * 86400
        ELSE DayOf(Val(t)) * 86400 + Val(t)[3]

\* C2: a location-only search without people embeds no text and returns
\* min(k, |loc_set|) members of loc_set, the most recent ones, most recent
\* first, each with similarity 1.0.
C2_LocationOnly ==
    (Searched /\ LocationOnly /\ op.plan.people = << >>) =>
        /\ ~op.encoded
        /\ Len(op.results) = Min(op.top_k, Cardinality(LocSet))
        /\ Cardinality(ResultIds) = Len(op.results)
        /\ ResultIds \subseteq LocSet
        /\ \A n \in 1..Len(op.results) : op.results[n].similarity = 100
        /\ \A i, j \in 1..Len(op.results) :
              i < j => Recency(op.results[i].id) >= Recency(op.results[j].id)
        /\ \A r \in ResultIds, x \in LocSet \ ResultIds : Recency(r) >= Recency(x)

\* C2 witness: a location-only search that had to cut two photos of different
\* dates down to one.
C2_Witness ==
    /\ Searched /\ LocationOnly /\ op.plan.people = << >>
    /\ Len(op.results) = 1
    /\ \E x \in LocSet : Recency(x) < Recency(op.results[1].id)

\* The candidates the index holds, and the score of each against the query.
HitIds == (IF IsSome(op.plan.location) /\ LocSet # {} THEN LocSet ELSE DateSet)
              \cap Range(id_mapping)
HitScore(i) ==
    LET n == CHOOSE m \in 1..Len(id_mapping) : id_mapping[m] = i
    IN  InnerProduct(op.sims, Val(faiss_index).vectors[n])
\* The threshold of the table of thresholds for the texts of the model.
Tau == IF op.plan.search_text = text_pasta THEN 24 ELSE 26
Passing == {i \in HitIds : HitScore(i) > Tau}

\* C3: in Branch B the results are the hits above the threshold, best first
\* and cut to k; when none is above it, the single top hit if it scores at
\* least 0.20; else nothing.
C3_Threshold ==
    (Searched /\ op.branch = "B" /\ op.plan.people = << >> /\ IsSome(faiss_index)) =>
        /\ \A n \in 1..Len(op.results) :
              op.results[n].similarity = HitScore(op.results[n].id)
        /\ Cardinality(ResultIds) = Len(op.results)
        /\ Passing # {} =>
              /\ ResultIds \subseteq Passing
              /\ Len(op.results) = Min(op.top_k, Cardinality(Passing))
              /\ \A r \in ResultIds, x \in Passing \ ResultIds : HitScore(r) >= HitScore(x)
        /\ (Passing = {} /\ \E i \in HitIds : HitScore(i) >= 20) =>
              /\ Len(op.results) = 1
              /\ op.results[1].id \in HitIds
              /\ \A x \in HitIds : HitScore(op.results[1].id) >= HitScore(x)
        /\ (\A i \in HitIds : HitScore(i) < 20) => op.results = << >>

\* C3 witness: no hit above the threshold, the top hit returned alone although
\* another hit exists.
C3_Witness ==
    /\ Searched /\ op.branch = "B" /\ op.plan.people = << >> /\ IsSome(faiss_index)
    /\ Passing = {}
    /\ Cardinality(HitIds) = 2
    /\ Len(op.results) = 1

\* The photo's taken_date falls on a day of the closed range.
InClosedRange(i, time_range) ==
    /\ IsSome(time_range.start) =>
          IsSome(images[i].taken_date)
          /\ DayOf(Val(images[i].taken_date)) >= DayOf(Val(time_range.start))
    /\ IsSome(time_range.end) =>
          IsSome(images[i].taken_date)
          /\ DayOf(Val(images[i].taken_date)) <= DayOf(Val(time_range.end))

\* C4: the time filter keeps exactly the photos taken on a day of the closed
\* range [start, end], the end day included; a photo without taken_date is
\* dropped exactly when a bound is set.
C4_ClosedRange ==
    Searched => DateSet = {i \in DOMAIN images : InClosedRange(i, op.plan.time_range)}

\* A photo without coordinates whose location_name contains a variant of one
\* of the first n names of the plan.
NameMatches(i, names, n) ==
    /\ IsNone(images[i].gps_lat) /\ IsNone(images[i].gps_lon)
    /\ IsSome(images[i].location_name)
    /\ \E m \in 1..Min(n, Len(names)) : \E v \in normalize_korean_location(names[m]) :
          Contains(LowerStr(Val(images[i].location_name)), LowerStr(v))
NameSubset ==
    Range(filter_by_location_name(images, filter_by_date(images, op.plan.time_range),
                                  Val(op.plan.location)))

\* C5 as claimed: the name subset holds every photo without GPS whose
\* location_name matches a variant of any name of the plan, so without
\* coordinates the location set is not empty when such a photo exists.
C5_AnyName ==
    (Searched /\ IsSome(op.plan.location)) =>
        \A i \in DateSet :
            NameMatches(i, Val(op.plan.location).names, Len(Val(op.plan.location).names)) =>
                i \in NameSubset /\ LocSet # {}

\* C5 amended: the same for the first two names of the plan.
C5_FirstTwoNames ==
    (Searched /\ IsSome(op.plan.location)) =>
        \A i \in DateSet :
            NameMatches(i, Val(op.plan.location).names, 2) =>
                i \in NameSubset /\ LocSet # {}

\* C5 witness: geocoding failed and a photo is found by a name variant.
C5_Witness ==
    /\ Searched /\ IsSome(op.plan.location)
    /\ IsNone(Val(op.plan.location).coordinates)
    /\ \E i \in DateSet : NameMatches(i, Val(op.plan.location).names, 2) /\ i \in LocSet

\* The photo has a face row naming one of the people.
HasFaceOf(i, people) ==
    \E n \in 1..Len(faces) :
        /\ faces[n].image_id = i
        /\ \E q \in Range(people) : faces[n].person_name = Some(q)

\* C6: with people in the plan every result is a stored photo with a face of
\* one of them; without people no result is removed (Branch A returns
\* min(k, |loc_set|) photos, Branch C min(k, |date_set|), Branch B is not
\* empty when a candidate scores above the threshold and k > 0).
C6_People ==
    Searched =>
        /\ op.plan.people # << >> =>
              \A i \in ResultIds : i \in DOMAIN images /\ HasFaceOf(i, op.plan.people)
        /\ op.plan.people = << >> =>
              /\ op.branch = "A" => Len(op.results) = Min(op.top_k, Cardinality(LocSet))
              /\ op.branch = "C" => Len(op.results) = Min(op.top_k, Cardinality(DateSet))
              /\ (op.branch = "B" /\ op.top_k > 0 /\ IsSome(faiss_index) /\ Passing # {}) =>
                    op.results # << >>

\* C6 witness: a search for a person that returned a photo.
C6_Witness == Searched /\ op.plan.people # << >> /\ op.results # << >>

\* An indexing run that saves photos and then rebuilds the index, while the
\* same SearchEngine answers a search.
SavePhoto ==
    /\ IsNone(run.rebuild)
    /\ \E item \in Library :
          save_image(item.path, encode_image(item.img), extract_metadata(item.photo))
ClipSearch ==
    /\ op.name \notin Queries
    /\ \E sims \in [Directions -> ScoresCoarse] : clip_search(sims, ScanRows(images))
NextConcurrent ==
    \/ SavePhoto
    \/ build_fetch \/ build_reset \/ build_row \/ build_publish
    \/ ClipSearch \/ clip_map \/ clip_return

SpecConcurrent == Init /\ [][NextConcurrent]_vars

\* Indexing runs of the three sources over items that may fail.  Roll: photos
\* of the Mac library; Drive: files of the drive; Folder: files of the image
\* folder.
Roll ==
    {[path |-> "p1", store |-> "ok", img |-> "a",
      photo |-> [date |-> Some(<<3, 36000>>),
                 location |-> Some(<<Gwangalli.lat, Gwangalli.lon>>), place |-> None]],
     [path |-> "p2", store |-> "ok", img |-> "unreadable",
      photo |-> [date |-> Some(<<2, 36000>>), location |-> None,
                 place |-> Some(gwangalli_beach)]],
     [path |-> "p3", store |-> "error", img |-> "b",
      photo |-> [date |-> None, location |-> None, place |-> None]],
     [path |-> "p1", store |-> "ok", img |-> "b",
      photo |-> [date |-> Some(<<1, 36000>>), location |-> None, place |-> None]]}
Both == Some([latitude |-> Some(Gwangalli.lat), longitude |-> Some(Gwangalli.lon)])
LatitudeOnly == Some([latitude |-> Some(Gwangalli.lat), longitude |-> None])
Drive ==
    {[store |-> "ok", img |-> "a",
      info |-> [id |-> "g1", createdTime |-> Some([valid |-> TRUE, day |-> 2, tod |-> 36000]),
                metadata |-> [location |-> Both]]],
     [store |-> "ok", img |-> "b",
      info |-> [id |-> "g2", createdTime |-> Some([valid |-> FALSE]),
                metadata |-> [location |-> None]]],
     [store |-> "ok", img |-> "a",
      info |-> [id |-> "g3", createdTime |-> None,
                metadata |-> [location |-> LatitudeOnly]]],
     [store |-> "ok", img |-> "unreadable",
      info |-> [id |-> "g1", createdTime |-> None, metadata |-> [location |-> None]]],
     [store |-> "error", img |-> "a",
      info |-> [id |-> "g2", createdTime |-> None, metadata |-> [location |-> None]]]}
Folder ==
    {[path |-> "l1", store |-> "ok", img |-> "a"],
     [path |-> "l2", store |-> "ok", img |-> "unreadable"],
     [path |-> "l3", store |-> "ok", img |-> "b"],
     [path |-> "l1", store |-> "error", img |-> "b"]}
IndexMac == \E photos \in Batches(Roll) : index_mac_photos(photos)
IndexDrive == \E files \in Batches(Drive) : index_google_drive(files)
IndexFolder == \E paths \in Batches(Folder) : fallback_index_images(paths)
NextIndex == IndexMac \/ IndexDrive \/ IndexFolder

SpecIndex == Init /\ [][NextIndex]_vars

\* ------------------------------------------- claims: the store and the index

\* The stored ids whose embedding has length D.
ValidIds == {i \in DOMAIN images : FromBuffer(images[i].clip_vector).dim = VectorDim}
\* size(ANN); an engine without an index holds no vector.
SizeOf(index) == IF IsNone(index) THEN 0 ELSE NTotal(index)
\* The engine state is a duplicate-free listing of the valid rows, one vector each.
ListsValidRows(eng) ==
    /\ Cardinality(Range(eng.id_mapping)) = Len(eng.id_mapping)
    /\ Range(eng.id_mapping) = ValidIds
    /\ SizeOf(eng.faiss_index) = Cardinality(ValidIds)

\* C7: after every build of either index, whatever the store holds, id_mapping
\* lists exactly the stored ids with an embedding of length D, without
\* duplicates, and the index holds as many vectors.
C7_RebuildListsValidRows ==
    /\ op.name \in {"rebuild_index", "SearchEngine", "index_mac_photos"} => ListsValidRows(Engine)
    /\ op.name = "VisualSearchEngine" => ListsValidRows(VisualEngine)

\* C9: once an indexing run has finished with its rebuild, a later query of
\* either engine that asks for as many photos as the store holds returns every
\* stored photo (every other stored photo, for find_similar_by_image).
C9_QueriesSeeBatch ==
    /\ (Searched /\ op.branch = "B" /\ op.top_k >= Cardinality(DOMAIN images)) =>
            ResultIds = DOMAIN images
    /\ (/\ op.name = "find_similar_by_image"
        /\ op.image_id \in DOMAIN images
        /\ op.top_k >= Cardinality(DOMAIN images)) =>
            ResultIds = DOMAIN images \ {op.image_id}

\* C10: the store holds exactly one row for each file_path ever saved, and
\* the row carries the embedding and the metadata of the latest save_image of
\* that file_path.
C10_InsertOrReplace ==
    /\ {images[i].file_path : i \in DOMAIN images} = DOMAIN puts
    /\ \A path \in DOMAIN puts :
          /\ Cardinality(IdsOfPath(images, path)) = 1
          /\ \A i \in IdsOfPath(images, path) :
                /\ FromBuffer(images[i].clip_vector) = puts[path].clip_vector
                /\ images[i].metadata = puts[path].metadata
                /\ images[i].taken_date = puts[path].metadata.taken_date
                /\ images[i].gps_lat = puts[path].metadata.gps_lat
                /\ images[i].gps_lon = puts[path].metadata.gps_lon
                /\ images[i].location_name = puts[path].metadata.location_name

\* C10 witness: a file_path saved a second time, with another embedding, while
\* another file_path is stored.
C10_Witness ==
    /\ op.name = "save_image" /\ op.ret = images_seq
    /\ images_seq > Cardinality(DOMAIN images)
    /\ Cardinality(DOMAIN images) >= 1
    /\ FromBuffer(images[op.ret].clip_vector).dim = SmallDim

\* C8: a search that runs while the index is rebuilt ends without error, and
\* the index and every id_mapping it has read are those of one completed build.
C8_OneSnapshot ==
    op.name = "search_by_clip_faiss" =>
        /\ op.status = "ok"
        /\ \E b \in run.builds :
              /\ op.index = b.faiss_index
              /\ \A n \in 1..Len(op.reads) : op.reads[n] = b.id_mapping

\* C11: the id of a photo is stable: a file_path that is saved again keeps the
\* id its first save_image returned, so that id still denotes its row.
C11_StableId ==
    \A path \in DOMAIN puts : IdsOfPath(images, path) = {puts[path].id}

\* ------------------------------------------------- claims: indexing runs

\* C12: every images row has gps_lat and gps_lon both present or both absent.
C12_NoHalfCoordinates ==
    \A i \in DOMAIN images : IsSome(images[i].gps_lat) <=> IsSome(images[i].gps_lon)

\* C13: every embedding the indexer wrote has length D and L2 norm within
\* 1e-3 of 1.
C13_UnitEmbeddings ==
    \A i \in DOMAIN images :
        /\ FromBuffer(images[i].clip_vector).dim = VectorDim
        /\ Norm(FromBuffer(images[i].clip_vector)) \in 999..1001

\* The last operation was an indexing run of the Mac library or of the drive.
RanBatch == op.name \in {"index_mac_photos", "index_google_drive"}
\* The last operation was an indexing run of any source.
RanIndexing == RanBatch \/ op.name = "fallback_index_images"

\* C14: in an indexing run an item whose picture cannot be encoded or whose
\* save fails gets no row and is not counted, and every other item of the run
\* is saved and counted.
C14_FailedItemSkipped ==
    RanBatch =>
        /\ op.ret = op.items - op.failures
        /\ Cardinality(op.ids) = op.items - op.failures
        /\ \A i \in op.ids \cap DOMAIN images : images[i].file_path \notin op.failed

busan_en == <<"B", "u", "s", "a", "n">>
text_beach_sunset == <<"b", "e", "a", "c", "h", " ", "s", "u", "n", "s", "e", "t">>
text_busan_beach == <<"B", "u", "s", "a", "n", " ", "b", "e", "a", "c", "h">>
text_pasta_italian_food ==
    <<"p", "a", "s", "t", "a", " ", "i", "t", "a", "l", "i", "a", "n", " ", "f", "o", "o", "d">>

\* Utterances: "last summer pasta", "last year Busan", "mum Gwangalli" and
\* "Gwangalli sunset", in Korean.
Utterances ==
    {<<"jak", "nyeon", " ", "yeo", "reum", " ", "pa", "seu", "ta">>,
     <<"jak", "nyeon", " ", "bu", "san">>,
     <<"eom", "ma", " ", "gwang", "an", "ri">>,
     <<"gwang", "an", "ri", " ", "no", "eul">>}

\* What the LLM call may give: an exception, text that is no JSON, a JSON
\* list, or a JSON object with the fields of the prompt.
Replies ==
    {[kind |-> "error"], [kind |-> "invalid"], [kind |-> "list"],
     [kind |-> "json",
      value |-> [time_range |-> Day2To3, location_names |-> <<busan, busan_en>>,
                 keywords |-> <<kw_sunset>>, people |-> <<eomma>>,
                 search_text |-> text_beach_sunset]],
     [kind |-> "json",
      value |-> [time_range |-> NoRange, location_names |-> <<busan, busan_en>>,
                 keywords |-> << >>, people |-> << >>,
                 search_text |-> text_busan_beach]],
     [kind |-> "json",
      value |-> [time_range |-> NoRange, location_names |-> << >>,
                 keywords |-> << >>, people |-> << >>,
                 search_text |-> text_pasta]],
     [kind |-> "json",
      value |-> [time_range |-> NoRange, location_names |-> <<gwangalli>>,
                 keywords |-> <<kw_sunset>>, people |-> << >>,
                 search_text |-> text_sunset]],
     [kind |-> "json",
      value |-> [time_range |-> NoRange, location_names |-> <<gwangalli_en, busan_en>>,
                 keywords |-> << >>, people |-> <<eomma>>,
                 search_text |-> text_sunset]]}

\* What the gazetteer may answer.
Responses ==
    {[kind |-> "timeout"], [kind |-> "garbage"], [kind |-> "empty"], [kind |-> "malformed"],
     [kind |-> "hit", lat |-> Busan.lat, lon |-> Busan.lon]}

Resolve ==
    \E location_name \in {busan_en, gwangalli_en, jeju_do}, response \in Responses :
        GetCoordinates(location_name, response)

Parse ==
    \E user_query \in Utterances, reply \in Replies, response \in Responses :
        ParseQuery(user_query, reply, response)

NextParser == Resolve \/ Parse

SpecParser == Init /\ [][NextParser]_vars

\* ---------------------------------------------- claims: the query parser

\* C16: the geocoder caches by the exact input string: once a name has been
\* resolved to a result, no later request for the same name is sent.
C16_CachedResolve ==
    \A i, j \in 1..Len(requests) :
        (i < j /\ requests[i].name = requests[j].name) => IsNone(requests[i].ret)

\* The gazetteer failed or found nothing.
NoAnswer(response) == response.kind \in {"timeout", "garbage", "empty", "malformed"}

\* C17: a geocoder failure never raises and never triggers the fallback: the
\* resolve returns none, and the plan keeps the LLM's time_range, search_text
\* and people, with location.names populated and the coordinates null.
C17_GeocoderFailure ==
    /\ (op.name = "get_coordinates" /\ NoAnswer(op.response)) =>
            ~op.raised /\ IsNone(op.ret)
    /\ (/\ op.name = "parse_query"
        /\ op.reply.kind = "json"
        /\ op.reply.value.location_names # << >>
        /\ NoAnswer(op.response)) =>
            /\ ~op.raised
            /\ ~op.fallback
            /\ op.plan.time_range = op.reply.value.time_range
            /\ op.plan.search_text = op.reply.value.search_text
            /\ op.plan.people = op.reply.value.people
            /\ IsSome(op.plan.location)
            /\ Val(op.plan.location).names = op.reply.value.location_names
            /\ IsNone(Val(op.plan.location).coordinates)

C17_Witness ==
    /\ op.name = "parse_query"
    /\ op.reply.kind = "json"
    /\ op.reply.value.location_names = <<busan, busan_en>>
    /\ op.response.kind = "timeout"
    /\ op.plan.people = <<eomma>>
    /\ Len(requests) = 2
    /\ requests[2] = [name |-> busan_en, ret |-> None]

\* The parse had no usable JSON object from the LLM.
FellBack == op.name = "parse_query" /\ op.reply.kind # "json"

LastSummer == [start |-> Some(DateOnly(20240601)), end |-> Some(DateOnly(20240831))]
LastYear == [start |-> Some(DateOnly(20240101)), end |-> Some(DateOnly(20241231))]

\* What every fallback plan has, and what the hints "pasta" and "mum" do.
FallbackBasics ==
    /\ ~op.raised
    /\ op.fallback
    /\ IsNone(op.plan.location)
    /\ op.plan.keywords = << >>
    /\ op.plan.search_text =
           IF Contains(op.user_query, <<"pa", "seu", "ta">>)
           THEN text_pasta_italian_food ELSE op.user_query
    /\ op.plan.people =
           IF Contains(op.user_query, <<"eom", "ma">>) THEN <<eomma>> ELSE << >>

\* C18 as stated: parse never raises; without a usable LLM answer the plan is
\* the deterministic fallback, whose time range is empty unless the utterance
\* holds "last summer".
C18_FallbackPlan ==
    FellBack =>
        /\ FallbackBasics
        /\ op.plan.time_range =
               IF Contains(op.user_query, <<"jak", "nyeon", " ", "yeo", "reum">>)
               THEN LastSummer ELSE NoRange

\* C18 amended: as above, and an utterance that holds "last year" without
\* "last summer" gets the whole of 2024 as its time range.
C18_FallbackPlanLastYear ==
    /\ op.name = "parse_query" => ~op.raised
    /\ FellBack =>
        /\ FallbackBasics
        /\ op.plan.time_range =
               IF Contains(op.user_query, <<"jak", "nyeon", " ", "yeo", "reum">>)
               THEN LastSummer
               ELSE IF Contains(op.user_query, <<"jak", "nyeon">>)
               THEN LastYear ELSE NoRange

C18_Witness ==
    /\ FellBack
    /\ op.reply.kind = "invalid"
    /\ op.plan.time_range = LastYear
    /\ op.plan.search_text = op.user_query

\* str.split() on the spaces of a text, as a set of tokens.
Tokens(s) ==
    {SubSeq(s, i, j) : <<i, j>> \in
        {ij \in (1..Len(s)) \X (1..Len(s)) :
            /\ ij[1] <= ij[2]
            /\ \A n \in ij[1]..ij[2] : s[n] # " "
            /\ (ij[1] = 1 \/ s[ij[1] - 1] = " ")
            /\ (ij[2] = Len(s) \/ s[ij[2] + 1] = " ")}}

\* C19: a plan with location names has a search_text that shares no token,
\* compared without case, with any of the names.
C19_NoPlaceTokens ==
    (op.name = "parse_query" /\ IsSome(op.plan.location)) =>
        \A n \in 1..Len(Val(op.plan.location).names) :
            Tokens(LowerStr(op.plan.search_text))
                \cap Tokens(LowerStr(Val(op.plan.location).names[n])) = {}


\* ------------------------------------------------ claims: visual similarity

\* Photos are stored and stored again, the VisualSearchEngine is constructed,
\* and photos similar to a photo are asked for.
NextSimilar == SaveImage \/ NewVisualSearchEngine \/ FindSimilar

SpecSimilar == Init /\ [][NextSimilar]_vars

\* find_similar_by_image returned for a photo of the store, leaving itself out.
FoundSimilar ==
    /\ op.name = "find_similar_by_image"
    /\ op.exclude_self
    /\ op.status = "ok"
    /\ op.image_id \in DOMAIN images

\* The positions of the visual index that hold another photo than image_id.
OtherIndexed(image_id) ==
    IF IsNone(vs_faiss_index) THEN {}
    ELSE {n \in 1..NTotal(vs_faiss_index) : vs_id_mapping[n] # image_id}

\* C20: find_similar_by_image(id, k) never returns id; it returns at most k
\* results, exactly k when the index holds at least k other photos, in
\* non-increasing order of similarity.
C20_SimilarOthers ==
    FoundSimilar =>
        /\ \A n \in 1..Len(op.results) : op.results[n].id # op.image_id
        /\ Len(op.results) <= op.top_k
        /\ Cardinality(OtherIndexed(op.image_id)) >= op.top_k =>
               Len(op.results) = op.top_k
        /\ \A m, n \in 1..Len(op.results) :
               m < n => op.results[m].similarity >= op.results[n].similarity


\* --------------------------------------------------- claims: related photos

\* The Royal Observatory, on the prime meridian.
Greenwich == [lat |-> 5148, lon |-> 0]
\* "Gwangalli, Busan".
gwangalli_busan == <<"gwang", "an", "ri", ",", " ", "bu", "san">>

\* The photos related photos are asked about: two at Gwangalli and Busan on
\* day 2, two on the prime meridian (one at midnight of day 3), and two
\* without coordinates that name Gwangalli.
Album ==
    {[path |-> "q1", store |-> "ok", img |-> "a",
      photo |-> [date |-> Some(<<2, 36000>>),
                 location |-> Some(<<Gwangalli.lat, Gwangalli.lon>>), place |-> None]],
     [path |-> "q2", store |-> "ok", img |-> "b",
      photo |-> [date |-> Some(<<2, 72000>>),
                 location |-> Some(<<Busan.lat, Busan.lon>>),
                 place |-> Some(busan_gwangyeoksi)]],
     [path |-> "q3", store |-> "ok", img |-> "a",
      photo |-> [date |-> Some(<<3, 0>>),
                 location |-> Some(<<Greenwich.lat, Greenwich.lon>>), place |-> None]],
     [path |-> "q4", store |-> "ok", img |-> "b",
      photo |-> [date |-> Some(<<1, 86399>>),
                 location |-> Some(<<Greenwich.lat, Greenwich.lon>>),
                 place |-> Some(gwangalli_beach)]],
     [path |-> "q5", store |-> "ok", img |-> "a",
      photo |-> [date |-> Some(<<2, 0>>),
                 location |-> None, place |-> Some(gwangalli_busan)]],
     [path |-> "q6", store |-> "ok", img |-> "b",
      photo |-> [date |-> None,
                 location |-> None, place |-> Some(gwangalli_beach)]]}

IndexAlbum ==
    \E photos \in Batches(Album) :
        IndexRunUpTo(MaxRelated, "index_mac_photos", photos, MacItems(photos), TRUE)

RelatedQueries == {"find_by_same_location", "find_by_same_date"}

FindSameLocation ==
    /\ op.name \notin RelatedQueries
    /\ \E image_id \in 1..MaxRelated, top_k \in 0..MaxK, radius_km \in {1, 10} :
          find_by_same_location(image_id, top_k, radius_km)

FindSameDate ==
    /\ op.name \notin RelatedQueries
    /\ \E image_id \in 1..MaxRelated, top_k \in 0..MaxK, date_range_days \in {0, 1} :
          find_by_same_date(image_id, top_k, date_range_days)

NextRelated == IndexAlbum \/ NewVisualSearchEngine \/ FindSameLocation \/ FindSameDate

SpecRelated == Init /\ [][NextRelated]_vars

\* find_by_same_date returned for a photo of the store that has a date.
FoundSameDate ==
    /\ op.name = "find_by_same_date"
    /\ op.image_id \in DOMAIN images
    /\ IsSome(images[op.image_id].taken_date)

\* C21: find_by_same_date(id, k, d) returns only photos whose taken_date lies
\* from the reference's calendar day minus d up to, and excluding, that day
\* plus d + 1; at most k of them; in ascending order of taken_date.  With
\* d = 0 they are all of the reference's own calendar day.
C21_SameDayWindow ==
    FoundSameDate =>
        LET ref == DayOf(Val(images[op.image_id].taken_date))
        IN  /\ Len(op.results) <= op.top_k
            /\ \A n \in 1..Len(op.results) :
                   /\ IsSome(op.results[n].taken_date)
                   /\ DayOf(Val(op.results[n].taken_date)) >= ref - op.date_range_days
                   /\ DayOf(Val(op.results[n].taken_date)) < ref + op.date_range_days + 1
                   /\ op.date_range_days = 0 => DayOf(Val(op.results[n].taken_date)) = ref
            /\ \A m, n \in 1..Len(op.results) :
                   m < n => TextLeq(Val(op.results[m].taken_date),
                                    Val(op.results[n].taken_date))

\* With one day either side of a reference of day 1, the photo of day 2 comes
\* back and the photo taken at midnight of day 3 does not.
C21_Witness ==
    /\ FoundSameDate
    /\ Val(images[op.image_id].taken_date) = IsoFormat(1, 86399)
    /\ op.date_range_days = 1
    /\ op.top_k = 2
    /\ Len(op.results) = 1
    /\ Val(op.results[1].taken_date) = IsoFormat(2, 0)
    /\ \E i \in DOMAIN images :
          /\ IsSome(images[i].taken_date)
          /\ Val(images[i].taken_date) = IsoFormat(3, 0)

\* find_by_same_location returned for a photo of the store.
FoundSameLocation == op.name = "find_by_same_location" /\ op.image_id \in DOMAIN images

HasGps(row) == IsSome(row.gps_lat) /\ IsSome(row.gps_lon)

\* C22: find_by_same_location takes the bounding box whenever the reference
\* has both coordinates (a coordinate of 0 included) and then returns only
\* photos with coordinates inside the box; it matches the primary segment of
\* the name only when the reference has no coordinates and has a name; with
\* neither it returns nothing.
C22_StrategyByData ==
    FoundSameLocation =>
        LET ref == images[op.image_id]
        IN  /\ HasGps(ref) =>
                   /\ op.strategy = "gps"
                   /\ \A n \in 1..Len(op.results) :
                          InBox(BoundingBox(Val(ref.gps_lat), Val(ref.gps_lon), op.radius_km),
                                op.results[n].gps_lat, op.results[n].gps_lon)
            /\ op.strategy = "name" => ~HasGps(ref) /\ IsSome(ref.location_name)
            /\ (~HasGps(ref) /\ IsNone(ref.location_name)) => op.results = << >>


\* ------------------------------------------------ claims: meaningful keywords

\* Keywords: "photographer", "beauty" (byu-ti, in Korean) and "Jeju travel"
\* (in Korean).
kw_photographer == <<"p", "h", "o", "t", "o", "g", "r", "a", "p", "h", "e", "r">>
kw_beauty == <<"byu", "ti">>
kw_jeju_travel == <<"je", "ju", " ", "yeo", "haeng">>

\* Plans that vary the keywords, with and without a location.
KeywordPlans ==
    [time_range  : {NoRange},
     location    : {None, Some(LocJeju)},
     keywords    : {<< >>, <<kw_travel>>, <<kw_sunset>>, <<kw_photographer>>,
                    <<kw_beauty>>, <<kw_jeju_travel>>, <<kw_travel, kw_sunset>>},
     search_text : {text_sunset},
     people      : {<< >>}]

SearchKeywords == SearchWith(KeywordPlans, ScoresCoarse)
NextKeywords == IndexLibrary \/ SearchKeywords
\* The text search engine over an indexed library, plans varying the keywords.
SpecKeywords == Init /\ [][NextKeywords]_vars

\* The plan's keywords without those whose lowercase contains a location name
\* and without those that are members of the generic set.
KeywordsNotGeneric(plan) ==
    LET names == IF IsSome(plan.location) THEN Val(plan.location).names ELSE << >>
    IN  SelectSeq(plan.keywords, LAMBDA kw :
            /\ ~\E n \in 1..Len(names) : Contains(LowerStr(kw), LowerStr(names[n]))
            /\ LowerStr(kw) \notin Range(generic_keywords))

\* C23: the meaningful keywords of a search are the plan's keywords minus
\* those that contain a location name and those that are in the generic set;
\* a plan with a location and a keyword left over does not take Branch A.
C23_MeaningfulKeywords ==
    Searched =>
        /\ meaningful_keywords(op.plan.keywords,
                               IF IsSome(op.plan.location)
                               THEN Val(op.plan.location).names ELSE << >>)
              = KeywordsNotGeneric(op.plan)
        /\ (IsSome(op.plan.location) /\ KeywordsNotGeneric(op.plan) # << >>) =>
               op.branch # "A"


\* ------------------------------------------------ claims: threshold policy

\* A call of _get_dynamic_threshold on the engine: it reads the thresholds
\* __init__ set, which nothing assigns afterwards.
GetDynamicThreshold(search_text) ==
    /\ op' = [name |-> "get_dynamic_threshold", search_text |-> search_text,
              ret |-> get_dynamic_threshold(search_text)]
    /\ UNCHANGED <<requests, storeVars, engineVars, visualVars, puts, run>>

\* Search texts: one per class, two that match two classes, one with an
\* upper-case letter, one that matches none.
PolicyTexts ==
    {text_pasta, text_sunset, text_beach_sunset, text_busan_beach,
     <<"P", "a", "s", "t", "a">>,
     <<"f", "a", "m", "i", "l", "y", " ", "d", "i", "n", "n", "e", "r">>,
     <<"f", "a", "m", "i", "l", "y", " ", "p", "o", "r", "t", "r", "a", "i", "t">>,
     <<"p", "e", "o", "p", "l", "e", " ", "b", "e", "a", "c", "h">>,
     <<"c", "i", "t", "y", " ", "w", "a", "l", "k", "i", "n", "g">>,
     <<"d", "a", "n", "c", "i", "n", "g">>}

AskThreshold == \E search_text \in PolicyTexts : GetDynamicThreshold(search_text)

NextPolicy == IndexLibrary \/ NewSearchEngine \/ AskThreshold
\* The threshold policy asked between indexing runs and engine rebuilds.
SpecPolicy == Init /\ [][NextPolicy]_vars

\* The classes in the order of the policy, each with its keywords and its
\* threshold.
PolicyClasses ==
    <<[keywords |-> food_keywords, tau |-> ThresholdFood],
      [keywords |-> person_keywords, tau |-> ThresholdPerson],
      [keywords |-> place_keywords, tau |-> ThresholdPlace],
      [keywords |-> activity_keywords, tau |-> ThresholdActivity]>>

\* The classes a text matches, as positions of PolicyClasses.
ClassesOf(search_text) ==
    {c \in 1..Len(PolicyClasses) :
        \E n \in 1..Len(PolicyClasses[c].keywords) :
            Contains(LowerStr(search_text), PolicyClasses[c].keywords[n])}

\* C24: the threshold of a text is that of the first class it matches in the
\* order food, person, place, activity, and the default when it matches
\* none, whatever the store and the engine hold and whatever was asked before.
C24_FirstMatchingClass ==
    op.name = "get_dynamic_threshold" =>
        LET classes == ClassesOf(op.search_text)
        IN  op.ret = IF classes = {} THEN ThresholdDefault
                     ELSE PolicyClasses[CHOOSE c \in classes :
                                            \A d \in classes : c <= d].tau

\* A text that matches a food and a person keyword gets the food threshold,
\* with photos indexed.
C24_Witness ==
    /\ op.name = "get_dynamic_threshold"
    /\ ClassesOf(op.search_text) = {1, 2}
    /\ op.ret = ThresholdFood
    /\ IsSome(faiss_index)


\* --------------------------------------------------- claims: result order

\* C25: search results are totally ordered: Branch B by descending score,
\* Branch A by descending taken_date, and two results of equal score (Branch
\* B) or equal taken_date (Branch A) by ascending id.
C25_TotalOrder ==
    Searched =>
        \A m, n \in 1..Len(op.results) :
            m < n =>
                LET a == op.results[m]
                    b == op.results[n]
                IN  /\ op.branch = "B" =>
                           \/ a.similarity > b.similarity
                           \/ (a.similarity = b.similarity /\ a.id < b.id)
                    /\ op.branch = "A" =>
                           \/ Recency(a.id) > Recency(b.id)
                           \/ (Recency(a.id) = Recency(b.id) /\ a.id < b.id)


\* ------------------------------------------- claims: place name variants

\* A call of _normalize_korean_location.
NormalizeKoreanLocation(location_name) ==
    /\ op' = [name |-> "normalize_korean_location", location_name |-> location_name,
              ret |-> normalize_korean_location(location_name)]
    /\ UNCHANGED <<requests, storeVars, engineVars, visualVars, puts, run>>

\* The syllables of Jeju, Daegu and of the suffixes si, do, gu, jachi-do.
NameSyllables == {"je", "ju", "dae", "gu", "si", "do", "ja", "chi"}
\* The names of at most MaxNameLen of these syllables.
PlaceNames == UNION {[1..n -> NameSyllables] : n \in 1..MaxNameLen}

NextNormalize == \E location_name \in PlaceNames : NormalizeKoreanLocation(location_name)
\* The variants of every short place name.
SpecNormalize == Init /\ [][NextNormalize]_vars

Normalized == op.name = "normalize_korean_location"

\* Normalizing a variant of the name yields only variants of the name.
VariantsClosed ==
    Normalized => \A v \in op.ret : normalize_korean_location(v) \subseteq op.ret

\* The name and the name with a listed suffix added have a variant in common.
VariantsMeet ==
    Normalized =>
        \A n \in 1..Len(suffixes) :
            op.ret \cap normalize_korean_location(op.location_name \o suffixes[n]) # {}

\* When a suffix is stripped it is the longest listed suffix the name ends with.
LongestStripped ==
    (Normalized /\ FirstSuffix(op.location_name) # 0) =>
        \A n \in 1..Len(suffixes) :
            EndsWith(op.location_name, suffixes[n]) =>
                Len(suffixes[n]) <= Len(suffixes[FirstSuffix(op.location_name)])

\* C26: suffix normalization is idempotent on its own output (the variants of
\* a variant of n are variants of n), a name and its suffixed form have a
\* variant in common, and the suffix stripped is the longest listed suffix
\* the name ends with.
C26_VariantsClosed == VariantsClosed /\ VariantsMeet /\ LongestStripped


\* ------------------------------------------------- claims: builds and rows

\* The engine state serves exactly the valid rows of the store: one position
\* per valid row, in scan order, holding the row's embedding.
ServesValidRows(eng) ==
    /\ IsSome(eng.faiss_index)
    /\ eng.id_mapping = ValidRows(images)
    /\ Val(eng.faiss_index).vectors =
           [n \in 1..Len(eng.id_mapping) |-> FromBuffer(images[eng.id_mapping[n]].clip_vector)]

\* The store holds a row with an embedding of another length and a valid row.
MixedStore == ValidIds # {} /\ ValidIds # DOMAIN images

\* The search engine's builder over a mixed store serves the valid rows.
SearchBuildSkipsBadRows ==
    (MixedStore /\ op.name \in {"rebuild_index", "SearchEngine"}) => ServesValidRows(Engine)

\* The visual recommender's builder over a mixed store serves the valid rows.
VisualBuildSkipsBadRows ==
    (MixedStore /\ op.name = "VisualSearchEngine") => ServesValidRows(VisualEngine)

\* C27: a build over a store with rows of a wrong-length embedding skips
\* them and succeeds when a valid row remains: the index serves exactly the
\* valid rows, for the search engine's builder and the visual recommender's.
C27_BuildSkipsBadRows == SearchBuildSkipsBadRows /\ VisualBuildSkipsBadRows


\* ------------------------------------------------- claims: size of results

FacesReferToPhotos ==
    \A n \in 1..Len(faces) : faces[n].image_id \in DOMAIN images

\* A step keeps the names of the stored photos: the name of a face row of a
\* stored photo is, after the step, a name of a face row of every row that has
\* the photo's path.
PersonsSurvive ==
    \A n \in 1..Len(faces) :
        faces[n].image_id \in DOMAIN images =>
            \A i \in IdsOfPath(images', images[faces[n].image_id].file_path) :
                \E m \in 1..Len(faces') :
                    /\ faces'[m].image_id = i
                    /\ faces'[m].person_name = faces[n].person_name

\* The names recorded for a stored photo are still its names after any step,
\* a save_image of its path included.
PersonsSurviveSave == [][PersonsSurvive]_vars

\* C29: after any sequence of save_image and save_face, every face row's
\* image_id is the id of a stored photo, and the names recorded for a photo
\* are still the names of the row its path has after it was saved again.
C29_FacesFollowPhotos == []FacesReferToPhotos /\ PersonsSurviveSave

\* --------------------------------------------- claims: mapping and index

\* The engine's id_mapping and index are in step: no index and an empty
\* id_mapping, or an index with one vector per position of id_mapping, the
\* vector of a position being the embedding of the photo listed there (of
\* the photos still stored: ids are never reused, a stored row never changes).
InStep(eng) ==
    \/ /\ IsNone(eng.faiss_index)
       /\ eng.id_mapping = << >>
    \/ /\ IsSome(eng.faiss_index)
       /\ NTotal(eng.faiss_index) = Len(eng.id_mapping)
       /\ \A n \in 1..Len(eng.id_mapping) :
              eng.id_mapping[n] \in DOMAIN images =>
                  Val(eng.faiss_index).vectors[n] =
                      FromBuffer(images[eng.id_mapping[n]].clip_vector)

\* The search engine's id_mapping and index are in step.
SearchEngineInStep == InStep(Engine)
\* The visual recommender's id_mapping and index are in step.
VisualEngineInStep == InStep(VisualEngine)

\* C30: in every state reached by constructions and rebuilds, builds that
\* find no row, no valid row or that raise included, each engine's id_mapping
\* and index are in step.
C30_MappingInStep == InStep(Engine) /\ InStep(VisualEngine)

====
